---- MODULE Spec2Model ----
(***************************************************************************)
(* Pi-Lane race-control kernel: the race engine (race/engine.py) as a set  *)
(* of asyncio coroutines.  A coroutine runs atomically from one await to   *)
(* the next, so every action below is one such segment of a handler.      *)
(*                                                                         *)
(* Time is the event loop's monotonic clock in milliseconds.  A lane's     *)
(* estimated_position is kept as the numerator of a fraction over          *)
(* PositionScale, and fuel_level in units of 1/FuelScale percent, so that  *)
(* the float arithmetic of the source is exact integer arithmetic here.    *)
(*                                                                         *)
(* manager.broadcast_to_race(...) never touches engine state: it is a      *)
(* suspension point of the caller.  The event handed to it is recorded in  *)
(* the bag `events` at the call (race:state snapshots are not recorded).   *)
(***************************************************************************)
EXTENDS Integers, Sequences, FiniteSets, Bags, TLC

VARIABLES
    now,           \* asyncio.get_event_loop().time(), in ms
    races,         \* every RaceState object constructed so far (the heap)
    current_race,  \* RaceEngine._current_race: index into races, 0 = None
    tick_task,     \* RaceEngine._tick_task: index into ticks, 0 = None
    ticks,         \* the _race_tick_loop tasks
    countdowns,    \* the start_countdown coroutines
    lap_calls,     \* record_lap calls suspended in the race:lap broadcast
    events,        \* bag of the events handed to manager.broadcast_to_race
    delivered,     \* bag of the race:finished events whose broadcast returned
    last_error,    \* the exception raised by the latest setup_race/start_countdown
    hub,           \* websocket.py: the ConnectionManager and its broadcasts
    sim,           \* simulator.py: the TrackSimulator and its lane tasks
    sensors,       \* simulator.py: a SimulatedLightBarrier per lane
    pwm            \* simulator.py: the SimulatedPWMController

vars ==
    <<now, races, current_race, tick_task, ticks, countdowns, lap_calls, events,
      delivered, last_error, hub, sim, sensors, pwm>>

(* What the engine's own handlers never touch *)
peripherals == <<hub, sim, sensors, pwm>>

-----------------------------------------------------------------------------
(* Bounds of the model *)

MaxRaces == 2            \* sessions constructed by setup_race
MaxCountdowns == 2       \* start_countdown calls
RunSteps == 2            \* clock steps after the first countdown (lifecycle)
LapRunSteps == 4         \* clock steps after the countdown (lap recording)
MaxInflight == 2         \* record_lap calls suspended at once
MaxLaps == 3             \* laps recorded per lane
MaxStops == 1            \* stop calls per session
TargetLaps == 2          \* the target_laps given to setup_race
TimeLimitSeconds == 1    \* the time_limit_seconds given to setup_race
PowerRunSteps == 2       \* clock steps after the countdown (power commands)
TickRunSteps == 2        \* clock steps of a session met in mid-race
SensorRunSteps == 3      \* clock steps after the countdown (lap sensor)
MaxConnections == 3      \* websocket connections made
MaxSends == 2            \* broadcasts and personal messages sent by the hub
SimRunSteps == 4         \* clock steps of a simulated session
MaxTriggers == 3         \* trigger() calls per lap sensor

(* Program constants *)

None == -1               \* Python's None in an Optional[int]/Optional[float]
CountdownFrom == 5       \* range(5, 0, -1)
CountdownSleepMs == 1000 \* asyncio.sleep(1)
TickSleepMs == 100       \* asyncio.sleep(0.1)
SensorSleepMs == 100     \* SimulatedLightBarrier.trigger: asyncio.sleep(0.1)
SimSleepMs == 100        \* TrackSimulator._simulate_lane: asyncio.sleep(0.1)
PowerChange == 10        \* _simulate_lane: abs(new_power - power) > 10
DebounceMs == 1000       \* lap_time_ms < 1000
BaseLapTimeMs == 5000    \* settings.sim_base_lap_time_ms
FuelScale == 1000        \* consumption = power_level * 0.001
FullPercent == 100       \* fuel_level = 100.0, power_level / 100.0
NumLanes == 2            \* SimulatedPWMController(num_lanes=2)

PositionScale == BaseLapTimeMs * FullPercent

(* A tick loop task per _start_race, and one for resume *)
MaxTickTasks == MaxCountdowns + 1

LaneNumbers == {1, 2}

-----------------------------------------------------------------------------
(* Data *)

NewLane(lane, car) ==
    [lane_number |-> lane, car_id |-> car, power_level |-> 0, current_lap |-> 0,
     lap_times_ms |-> <<>>, best_lap_time_ms |-> None, total_time_ms |-> 0,
     last_lap_timestamp |-> 0, estimated_position |-> 0,
     fuel_level |-> FullPercent * FuelScale, finished |-> FALSE,
     finish_position |-> None]

(* The dict built by setup_race's loop: a later participant on the same    *)
(* lane replaces the earlier entry and keeps its place in the key order.   *)
RECURSIVE BuildLanes(_, _, _)
BuildLanes(ps, keys, st) ==
    IF ps = <<>> THEN [keys |-> keys, st |-> st]
    ELSE LET p == Head(ps)
         IN BuildLanes(Tail(ps),
                       IF p.lane \in DOMAIN st THEN keys ELSE Append(keys, p.lane),
                       (p.lane :> NewLane(p.lane, p.car_id)) @@ st)

(* RaceState(...).  Three fields are not in the source: participants, the  *)
(* list setup_race was given; paused_ms, the time on the clock that the    *)
(* session has spent PAUSED since it was started; stopped_from, the state  *)
(* in which the latest stop() found the session.                           *)
NewRace(id, ps, mode, target, limit, fuel) ==
    LET d == BuildLanes(ps, <<>>, <<>>)
    IN [race_id |-> id, participants |-> ps, mode |-> mode, target_laps |-> target,
        time_limit_seconds |-> limit, fuel_simulation_enabled |-> fuel,
        lane_keys |-> d.keys, lanes |-> d.st, state |-> "idle",
        start_time |-> None, elapsed_time_ms |-> 0,
        countdown_remaining |-> CountdownFrom, finish_order |-> <<>>,
        paused_ms |-> 0, stopped_from |-> "none"]

(* broadcast_to_race(race_id, create_ws_message(type, payload)) *)
Event(type, id, payload) == <<type, id, payload>>

Publish(evs, e) == evs (+) SetToBag({e})

(* The number of events of a type for a race in a bag of events *)
PublishedIn(evs, type, id) ==
    LET S == {e \in BagToSet(evs) : e[1] = type /\ e[2] = id}
        RECURSIVE Sum(_)
        Sum(T) == IF T = {} THEN 0
                  ELSE LET x == CHOOSE y \in T : TRUE
                       IN CopiesIn(x, evs) + Sum(T \ {x})
    IN Sum(S)

Published(type, id) == PublishedIn(events, type, id)

DeadTask == [pc |-> "done", wake |-> 0]

(* asyncio.Task.cancel(): the task gets CancelledError at the await it is  *)
(* suspended in (or before its first step) and runs no further code.       *)
Cancel(tt, t) == IF t = 0 THEN tt ELSE [tt EXCEPT ![t] = DeadTask]

FreeTicks == {t \in 1..MaxTickTasks : ticks[t].pc = "done"}
FreeTick == CHOOSE t \in FreeTicks : \A u \in FreeTicks : t <= u

-----------------------------------------------------------------------------
(* Pure steps of the engine, on a RaceState or LaneState value *)

Cur == races[current_race]

HasRace == current_race # 0

(* _finish_race, lines 320-325: the lanes in dict order *)
RECURSIVE FinishLanes(_, _)
FinishLanes(r, keys) ==
    IF keys = <<>> THEN r
    ELSE LET k == Head(keys)
         IN FinishLanes(IF r.lanes[k].finished THEN r
                        ELSE [r EXCEPT !.lanes[k].finished = TRUE,
                                       !.lanes[k].finish_position = Len(r.finish_order) + 1,
                                       !.finish_order = Append(r.finish_order, r.lanes[k].lane_number)],
                        Tail(keys))

(* _finish_race, lines 318-325 *)
FinishedRace(r) == FinishLanes([r EXCEPT !.state = "finished"], r.lane_keys)

(* _finish_race, lines 327-343 *)
FinishedEvent(r) ==
    Event("race:finished", r.race_id,
          [finish_order |-> r.finish_order,
           results |-> [k \in DOMAIN r.lanes |->
                          [car_id |-> r.lanes[k].car_id,
                           laps |-> r.lanes[k].current_lap,
                           total_time_ms |-> r.lanes[k].total_time_ms,
                           best_lap_ms |-> r.lanes[k].best_lap_time_ms,
                           position |-> r.lanes[k].finish_position]]])

UpdatePositionEstimateUnwrapped(l, t) ==
    IF l.last_lap_timestamp = 0 THEN l
    ELSE IF l.power_level > 0
         THEN [l EXCEPT !.estimated_position = (t - l.last_lap_timestamp) * l.power_level]
         ELSE l

(* _update_position_estimate, lines 197-213 *)
UpdatePositionEstimate(l, t) ==
    IF l.last_lap_timestamp = 0 THEN l
    ELSE IF l.power_level > 0
         THEN [l EXCEPT !.estimated_position =
                            ((t - l.last_lap_timestamp) * l.power_level) % PositionScale]
         ELSE l

Max(a, b) == IF a >= b THEN a ELSE b
Min(a, b) == IF a <= b THEN a ELSE b

TickLaneUnfloored(r, l, t) ==
    LET p == UpdatePositionEstimate(l, t)
    IN IF r.fuel_simulation_enabled
       THEN [p EXCEPT !.fuel_level = p.fuel_level - p.power_level]
       ELSE p

(* _tick, lines 176-183, for one unfinished lane; the consumption           *)
(* power_level * 0.001 is power_level units of 1/FuelScale.                 *)
TickLane(r, l, t) ==
    LET p == UpdatePositionEstimate(l, t)
    IN IF r.fuel_simulation_enabled
       THEN [p EXCEPT !.fuel_level = Max(0, p.fuel_level - p.power_level)]
       ELSE p

TickUpdateElapsedOnly(r, t) == [r EXCEPT !.elapsed_time_ms = t - r.start_time]

(* _tick, lines 171-183 *)
TickUpdate(r, t) ==
    [r EXCEPT !.elapsed_time_ms = t - r.start_time,
              !.lanes = [k \in DOMAIN r.lanes |->
                           IF r.lanes[k].finished THEN r.lanes[k]
                           ELSE TickLane(r, r.lanes[k], t)]]

(* _tick, lines 186-187 *)
TimeLimitReached(r) ==
    /\ r.time_limit_seconds # None
    /\ r.time_limit_seconds # 0
    /\ r.elapsed_time_ms >= r.time_limit_seconds * 1000

(* _tick, line 192: int(current_time * 10) % 5 == 0 *)
BroadcastDue(t) == (t \div 100) % 5 = 0

(* record_lap, lines 231-232 *)
LapTimeMs(l, t) == t - l.last_lap_timestamp

(* record_lap, line 235 *)
Debounced(l, t) == l.current_lap = 0 /\ LapTimeMs(l, t) < DebounceMs

RecordedLaneLastIsBest(l, t) ==
    LET ms == LapTimeMs(l, t)
    IN IF Debounced(l, t)
       THEN [l EXCEPT !.last_lap_timestamp = t]
       ELSE [l EXCEPT !.last_lap_timestamp = t,
                      !.current_lap = @ + 1,
                      !.lap_times_ms = Append(@, ms),
                      !.total_time_ms = @ + ms,
                      !.estimated_position = 0,
                      !.best_lap_time_ms = ms]

(* record_lap, lines 232-247 *)
RecordedLane(l, t) ==
    LET ms == LapTimeMs(l, t)
    IN IF Debounced(l, t)
       THEN [l EXCEPT !.last_lap_timestamp = t]
       ELSE [l EXCEPT !.last_lap_timestamp = t,
                      !.current_lap = @ + 1,
                      !.lap_times_ms = Append(@, ms),
                      !.total_time_ms = @ + ms,
                      !.estimated_position = 0,
                      !.best_lap_time_ms =
                          IF @ = None \/ ms < @ THEN ms ELSE @]

ReachedTargetEarly(l, r) == l.current_lap + 1 >= r.target_laps

(* record_lap, line 266 *)
ReachedTarget(l, r) == l.current_lap >= r.target_laps

-----------------------------------------------------------------------------
(* Environments: the inputs and the call budgets of a specification *)

Participant(lane, car) == [lane |-> lane, car_id |-> car]

Config(ps, mode, limit, fuel) ==
    [participants |-> ps, mode |-> mode, target_laps |-> TargetLaps,
     time_limit_seconds |-> limit, fuel_simulation_enabled |-> fuel]

OneLane == <<Participant(1, 1)>>
TwoLanes == <<Participant(1, 1), Participant(2, 2)>>
TwoLanesReversed == <<Participant(2, 1), Participant(1, 2)>>
SameLaneTwice == <<Participant(1, 1), Participant(1, 2)>>

CountdownMs == CountdownFrom * CountdownSleepMs

(* Session lifecycle: sessions follow one another, the clock steps by 1 s *)
LifecycleEnv ==
    [step |-> 1000, clock |-> CountdownMs + RunSteps * 1000,
     races |-> MaxRaces, countdowns |-> MaxCountdowns - 1,
     configs |-> {Config(OneLane, "race_laps", None, FALSE),
                  Config(SameLaneTwice, "race_laps", None, FALSE)}]

(* Lap recording: one session, the clock steps by 0.5 s *)
LapEnv ==
    [step |-> 500, clock |-> CountdownMs + LapRunSteps * 500,
     races |-> MaxRaces - 1, countdowns |-> MaxCountdowns - 1,
     configs |-> {Config(TwoLanesReversed, "race_laps", TimeLimitSeconds, FALSE),
                  Config(OneLane, "practice", None, FALSE)}]

(* Power commands: one session, with lane 2 or without it; the clock      *)
(* steps by 1 s                                                            *)
PowerEnv ==
    [step |-> 1000, clock |-> CountdownMs + PowerRunSteps * 1000,
     races |-> MaxRaces - 1, countdowns |-> MaxCountdowns - 1,
     configs |-> {Config(OneLane, "practice", None, FALSE),
                  Config(TwoLanes, "race_laps", None, FALSE)}]

(* The power_level arguments given to set_power *)
PowerInputs == {-50, 40, 250}

-----------------------------------------------------------------------------
(* The objects around the engine, as constructed *)

ConnectionIds == 1..MaxConnections

(* The race id connections subscribe to *)
HubRaces == {1}

(* A broadcast or personal message that was not sent yet *)
NoSend ==
    [pc |-> "unused", op |-> "none", ids |-> <<>>, i |-> 1, disconnected |-> <<>>,
     sent |-> {}, absent |-> {}]

(* ConnectionManager.__init__, websocket.py lines 13-19.  The keys of     *)
(* active_connections are kept in the order of their insertion, which is  *)
(* the order of connection_metadata too.  sends are the calls of          *)
(* _send_to_connections and send_personal.  Two fields are not in the     *)
(* source: accepted, the connection ids handed out so far, and accesses,  *)
(* the reads and writes of the two dictionaries made by the latest step   *)
(* of a call, each with whether _lock was held.  lock is the holder of    *)
(* _lock: 0 when it is free, else the number of the sending call.         *)
NewHub ==
    [active_connections |-> <<>>,
     lock |-> 0,
     connection_metadata |-> [c \in {} |-> {}],
     sends |-> [b \in 1..MaxSends |-> NoSend],
     accepted |-> {},
     accesses |-> {}]

(* A lane without a task in TrackSimulator._tasks *)
NoTask ==
    [pc |-> "none", wake |-> 0, rc |-> 0, power |-> 0, lap_time |-> 0, elapsed |-> 0]

(* TrackSimulator.__init__, simulator.py lines 23-25.  invoked is not in   *)
(* the source: the number of record_lap calls made for each lane.          *)
NewSimulator ==
    [running |-> FALSE,
     tasks |-> [lane \in LaneNumbers |-> NoTask],
     invoked |-> [lane \in LaneNumbers |-> 0]]

(* SimulatedLightBarrier.__init__, simulator.py lines 131-134, with the   *)
(* trigger() coroutines of the sensor: callbacks, how many are suspended  *)
(* in the callback; sleeps, the wake-up times of those in the sleep of    *)
(* line 142.  Two fields are not in the source: arrived, the number of    *)
(* trigger() calls so far, and invoked, the number of callback calls.     *)
NewSensor ==
    [triggered |-> FALSE, callbacks |-> 0, sleeps |-> <<>>, arrived |-> 0, invoked |-> 0]

(* SimulatedPWMController.__init__, simulator.py lines 153-156.  Two      *)
(* fields are not in the source: last, the latest call and its arguments, *)
(* and calls, the number of calls so far modulo 2.                        *)
NewPwm ==
    [power_levels |-> [lane \in 1..NumLanes |-> 0],
     last |-> [op |-> "none", lane |-> 0, power |-> 0], calls |-> 0]

-----------------------------------------------------------------------------
(* Initial state: RaceEngine.__init__ and the module-level instances *)

UnusedCountdown == [pc |-> "unused", i |-> 0, wake |-> 0]
DoneCountdown == [pc |-> "done", i |-> 0, wake |-> 0]

Init ==
    /\ now = 0
    /\ races = <<>>
    /\ current_race = 0
    /\ tick_task = 0
    /\ ticks = [t \in 1..MaxTickTasks |-> DeadTask]
    /\ countdowns = [c \in 1..MaxCountdowns |-> UnusedCountdown]
    /\ lap_calls = [rl \in (1..MaxRaces) \X LaneNumbers |-> 0]
    /\ events = EmptyBag
    /\ delivered = EmptyBag
    /\ last_error = "none"
    /\ hub = NewHub
    /\ sim = NewSimulator
    /\ sensors = [lane \in LaneNumbers |-> NewSensor]
    /\ pwm = NewPwm

-----------------------------------------------------------------------------
(* The clock *)

(* Somebody reads the clock later: a sleeping coroutine, or a session     *)
(* whose start_time or lap timestamps are compared with it.                *)
ClockObserved ==
    \/ \E c \in 1..MaxCountdowns : countdowns[c].pc \notin {"unused", "done"}
    \/ \E t \in 1..MaxTickTasks : ticks[t].pc # "done"
    \/ HasRace /\ Cur.state \in {"running", "paused"}

(* A timer that is due fires before the clock moves on. *)
TimerDue ==
    \/ \E c \in 1..MaxCountdowns : countdowns[c].pc = "sleep" /\ now >= countdowns[c].wake
    \/ \E t \in 1..MaxTickTasks : ticks[t].pc \in {"ready", "sleep"} /\ now >= ticks[t].wake

(* A coroutine is suspended inside a broadcast: a broadcast is short       *)
(* against the clock's step, and other coroutines run meanwhile.           *)
Broadcasting ==
    \/ \E c \in 1..MaxCountdowns : countdowns[c].pc \in {"await_state", "await_countdown"}
    \/ \E t \in 1..MaxTickTasks : ticks[t].pc \in {"await_state", "await_finished"}
    \/ \E rl \in DOMAIN lap_calls : lap_calls[rl] > 0

(* The sessions after the clock has moved by d *)
Elapsed(rs, d) ==
    [n \in DOMAIN rs |->
       IF rs[n].state = "paused" THEN [rs[n] EXCEPT !.paused_ms = @ + d] ELSE rs[n]]

Advance(e) ==
    /\ ClockObserved
    /\ ~TimerDue
    /\ ~Broadcasting
    /\ now + e.step <= e.clock
    /\ now' = now + e.step
    /\ races' = Elapsed(races, e.step)
    /\ UNCHANGED <<current_race, tick_task, ticks, countdowns, lap_calls,
                   events, last_error, delivered, peripherals>>

-----------------------------------------------------------------------------
(* setup_race *)

SetupNeverConflicts == FALSE

(* line 93 *)
SetupConflict == HasRace /\ Cur.state = "running"

SetupRace(e) ==
    \E cfg \in e.configs :
       IF SetupConflict
       THEN /\ last_error' = "RuntimeError: running"
            /\ UNCHANGED <<now, races, current_race, tick_task, ticks, countdowns,
                           lap_calls, events, delivered, peripherals>>
       ELSE /\ Len(races) < e.races
            /\ races' = Append(races,
                               NewRace(Len(races) + 1, cfg.participants, cfg.mode,
                                       cfg.target_laps, cfg.time_limit_seconds,
                                       cfg.fuel_simulation_enabled))
            /\ current_race' = Len(races) + 1
            /\ last_error' = "none"
            /\ UNCHANGED <<now, tick_task, ticks, countdowns, lap_calls, events, delivered, peripherals>>

-----------------------------------------------------------------------------
(* start_countdown and _start_race *)

UsedCountdowns == {c \in 1..MaxCountdowns : countdowns[c].pc # "unused"}

(* lines 119-128: up to the first await, inside _broadcast_state *)
StartCountdown(e) ==
    IF ~HasRace
    THEN /\ last_error' = "RuntimeError: no race"
         /\ UNCHANGED <<now, races, current_race, tick_task, ticks, countdowns,
                        lap_calls, events, delivered, peripherals>>
    ELSE /\ Cardinality(UsedCountdowns) < e.countdowns
         /\ races' = [races EXCEPT ![current_race].state = "countdown",
                                   ![current_race].countdown_remaining = CountdownFrom]
         /\ countdowns' = [countdowns EXCEPT ![Cardinality(UsedCountdowns) + 1] =
                              [pc |-> "await_state", i |-> CountdownFrom, wake |-> 0]]
         /\ last_error' = "none"
         /\ UNCHANGED <<now, current_race, tick_task, ticks, lap_calls, events, delivered, peripherals>>

(* lines 129-132: _broadcast_state returned, race:countdown is published *)
CountdownPublish(c) ==
    /\ countdowns[c].pc = "await_state"
    /\ events' = Publish(events, Event("race:countdown", Cur.race_id,
                                       [remaining |-> countdowns[c].i]))
    /\ countdowns' = [countdowns EXCEPT ![c].pc = "await_countdown"]
    /\ UNCHANGED <<now, races, current_race, tick_task, ticks, lap_calls, last_error, delivered, peripherals>>

(* line 133: the broadcast returned, asyncio.sleep(1) starts *)
CountdownSleep(c) ==
    /\ countdowns[c].pc = "await_countdown"
    /\ countdowns' = [countdowns EXCEPT ![c].pc = "sleep",
                                        ![c].wake = now + CountdownSleepMs]
    /\ UNCHANGED <<now, races, current_race, tick_task, ticks, lap_calls, events,
                   last_error, delivered, peripherals>>

StartedRaceUnstamped(r, t) ==
    [r EXCEPT !.state = "running", !.start_time = t, !.paused_ms = 0]

(* _start_race, lines 143-148, on the session that is current now *)
StartedRace(r, t) ==
    [r EXCEPT !.state = "running",
              !.start_time = t,
              !.paused_ms = 0,
              !.lanes = [k \in DOMAIN r.lanes |->
                           [r.lanes[k] EXCEPT !.last_lap_timestamp = t]]]

(* lines 126-128 of the next iteration *)
CountdownWake(c) ==
    /\ countdowns[c].pc = "sleep"
    /\ now >= countdowns[c].wake
    /\ countdowns[c].i > 1
    /\ races' = [races EXCEPT ![current_race].countdown_remaining = countdowns[c].i - 1]
    /\ countdowns' = [countdowns EXCEPT ![c].pc = "await_state",
                                        ![c].i = @ - 1, ![c].wake = 0]
    /\ UNCHANGED <<now, current_race, tick_task, ticks, lap_calls, events, last_error, delivered, peripherals>>

(* line 136 after the last iteration: _start_race, lines 140-156 *)
StartRace(c) ==
    /\ countdowns[c].pc = "sleep"
    /\ now >= countdowns[c].wake
    /\ countdowns[c].i = 1
    /\ FreeTicks # {}
    /\ races' = [races EXCEPT ![current_race] = StartedRace(@, now)]
    /\ ticks' = [ticks EXCEPT ![FreeTick] = [pc |-> "ready", wake |-> 0]]
    /\ tick_task' = FreeTick
    /\ events' = Publish(events, Event("race:started", Cur.race_id,
                                       [race_id |-> Cur.race_id]))
    /\ countdowns' = [countdowns EXCEPT ![c] = DoneCountdown]
    /\ UNCHANGED <<now, current_race, lap_calls, last_error, delivered, peripherals>>

-----------------------------------------------------------------------------
(* _race_tick_loop and _tick *)

Sleeping(t) == [pc |-> "sleep", wake |-> t + TickSleepMs]

(* line 162 *)
LoopCondition == HasRace /\ Cur.state = "running"

(* line 168 *)
TickSkipped == Cur.start_time = None \/ Cur.start_time = 0

(* _finish_race called by tick task t, lines 312-343.  It cancels          *)
(* _tick_task before it awaits the broadcast.  Any other caller goes on    *)
(* after the broadcast.  When _tick_task is the calling task itself, the   *)
(* cancellation is raised at the task's next suspension: inside the        *)
(* broadcast when a send to a subscriber suspends (websocket.py line 79,   *)
(* whose except clause does not catch it), which cuts the broadcast short, *)
(* or at the sleep of line 164 when no send suspends.                      *)
TickFinish(t, r) ==
    /\ races' = [races EXCEPT ![current_race] = FinishedRace(r)]
    /\ events' = Publish(events, FinishedEvent(FinishedRace(r)))
    /\ IF tick_task = t
       THEN /\ ticks' = [ticks EXCEPT ![t] = DeadTask]
            /\ \/ delivered' = Publish(delivered, FinishedEvent(FinishedRace(r)))
               \/ delivered' = delivered
       ELSE /\ ticks' = [Cancel(ticks, tick_task) EXCEPT
                            ![t] = [pc |-> "await_finished", wake |-> 0]]
            /\ delivered' = Publish(delivered, FinishedEvent(FinishedRace(r)))

(* One evaluation of the loop condition and, when it holds, of _tick up to *)
(* its await (lines 162-193).                                              *)
TickStep(t) ==
    /\ \/ ticks[t].pc = "ready"
       \/ ticks[t].pc = "sleep" /\ now >= ticks[t].wake
    /\ IF ~LoopCondition
       THEN /\ ticks' = [ticks EXCEPT ![t] = DeadTask]
            /\ UNCHANGED <<races, events, delivered>>
       ELSE IF TickSkipped
            THEN /\ ticks' = [ticks EXCEPT ![t] = Sleeping(now)]
                 /\ UNCHANGED <<races, events, delivered>>
            ELSE IF TimeLimitReached(TickUpdate(Cur, now))
                 THEN TickFinish(t, TickUpdate(Cur, now))
                 ELSE /\ races' = [races EXCEPT ![current_race] = TickUpdate(Cur, now)]
                      /\ ticks' = [ticks EXCEPT ![t] =
                                      IF BroadcastDue(now)
                                      THEN [pc |-> "await_state", wake |-> 0]
                                      ELSE Sleeping(now)]
                      /\ UNCHANGED <<events, delivered>>
    /\ UNCHANGED <<now, current_race, tick_task, countdowns, lap_calls, last_error, peripherals>>

(* line 164: the broadcast in _tick returned, asyncio.sleep(0.1) starts *)
TickSleep(t) ==
    /\ ticks[t].pc \in {"await_state", "await_finished"}
    /\ ticks' = [ticks EXCEPT ![t] = Sleeping(now)]
    /\ UNCHANGED <<now, races, current_race, tick_task, countdowns, lap_calls, events,
                   last_error, delivered, peripherals>>

-----------------------------------------------------------------------------
(* record_lap *)

InFlight ==
    LET RECURSIVE Sum(_)
        Sum(T) == IF T = {} THEN 0
                  ELSE LET x == CHOOSE y \in T : TRUE
                       IN lap_calls[x] + Sum(T \ {x})
    IN Sum(DOMAIN lap_calls)

LapIgnoredWhateverState(lane) ==
    \/ ~HasRace
    \/ lane \notin DOMAIN Cur.lanes
    \/ Cur.lanes[lane].finished

(* lines 217-226: the call returns at once *)
LapIgnored(lane) ==
    \/ ~HasRace
    \/ Cur.state # "running"
    \/ lane \notin DOMAIN Cur.lanes
    \/ Cur.lanes[lane].finished

LapEvent(r, old, new, lane, t) ==
    Event("race:lap", r.race_id,
          [race_id |-> r.race_id, car_id |-> new.car_id, lane |-> lane,
           lap_number |-> new.current_lap, lap_time_ms |-> LapTimeMs(old, t),
           is_best_lap |-> new.best_lap_time_ms # old.best_lap_time_ms])

(* lines 217-262: the call by whoever makes it, up to the await of the    *)
(* race:lap broadcast                                                     *)
RecordLapCall(lane) ==
    /\ ~LapIgnored(lane)
    /\ races' = [races EXCEPT ![current_race].lanes[lane] = RecordedLane(@, now)]
    /\ IF Debounced(Cur.lanes[lane], now)
       THEN UNCHANGED <<lap_calls, events>>
       ELSE /\ Cur.lanes[lane].current_lap < MaxLaps
            /\ InFlight < MaxInflight
            /\ lap_calls' = [lap_calls EXCEPT ![<<current_race, lane>>] = @ + 1]
            /\ events' = Publish(events,
                                 LapEvent(Cur, Cur.lanes[lane],
                                          RecordedLane(Cur.lanes[lane], now), lane, now))
    /\ UNCHANGED <<now, current_race, tick_task, ticks, countdowns, last_error, delivered>>

(* record_lap called from outside the simulation *)
RecordLap(lane) == RecordLapCall(lane) /\ UNCHANGED peripherals

(* lines 267-269: lane_state is the object looked up before the await, in  *)
(* session rc; finish_order is the current session's.                      *)
LaneFinished(rs, rc, lane, cur) ==
    [[rs EXCEPT ![rc].lanes[lane].finished = TRUE,
                ![rc].lanes[lane].finish_position = Len(rs[cur].finish_order) + 1]
        EXCEPT ![cur].finish_order = Append(@, lane)]

(* line 272 *)
AllFinished(r) == \A k \in DOMAIN r.lanes : r.lanes[k].finished

(* lines 264-274: the race:lap broadcast returned; self._current_race is   *)
(* read again.                                                             *)
RecordLapReturn(rc, lane) ==
    /\ lap_calls[<<rc, lane>>] > 0
    /\ lap_calls' = [lap_calls EXCEPT ![<<rc, lane>>] = @ - 1]
    /\ IF Cur.mode = "race_laps" /\ ReachedTarget(races[rc].lanes[lane], Cur)
       THEN LET rs == LaneFinished(races, rc, lane, current_race)
            IN IF AllFinished(rs[current_race])
               THEN /\ ticks' = Cancel(ticks, tick_task)
                    /\ races' = [rs EXCEPT ![current_race] = FinishedRace(@)]
                    /\ events' = Publish(events,
                                         FinishedEvent(FinishedRace(rs[current_race])))
                    /\ delivered' = Publish(delivered,
                                            FinishedEvent(FinishedRace(rs[current_race])))
               ELSE /\ races' = rs
                    /\ UNCHANGED <<ticks, events, delivered>>
       ELSE UNCHANGED <<races, ticks, events, delivered>>
    /\ UNCHANGED <<now, current_race, tick_task, countdowns, last_error>>

(* the same for a call made from outside the simulation *)
RecordLapResume(rc, lane) == RecordLapReturn(rc, lane) /\ UNCHANGED peripherals

-----------------------------------------------------------------------------
(* pause, resume, stop *)

PauseWhateverState ==
    /\ HasRace
    /\ races' = [races EXCEPT ![current_race].state = "paused"]
    /\ ticks' = Cancel(ticks, tick_task)
    /\ UNCHANGED <<now, current_race, tick_task, countdowns, lap_calls, events, last_error, delivered, peripherals>>

Pause ==
    /\ HasRace
    /\ Cur.state = "running"
    /\ races' = [races EXCEPT ![current_race].state = "paused"]
    /\ ticks' = Cancel(ticks, tick_task)
    /\ UNCHANGED <<now, current_race, tick_task, countdowns, lap_calls, events, last_error, delivered, peripherals>>

Resume ==
    /\ HasRace
    /\ Cur.state = "paused"
    /\ FreeTicks # {}
    /\ races' = [races EXCEPT ![current_race].state = "running"]
    /\ ticks' = [ticks EXCEPT ![FreeTick] = [pc |-> "ready", wake |-> 0]]
    /\ tick_task' = FreeTick
    /\ UNCHANGED <<now, current_race, countdowns, lap_calls, events, last_error, delivered, peripherals>>

Stop ==
    /\ ticks' = Cancel(ticks, tick_task)
    /\ IF HasRace
       THEN /\ Published("race:cancelled", Cur.race_id) < MaxStops
            /\ races' = [races EXCEPT ![current_race].state = "finished",
                                      ![current_race].stopped_from = Cur.state]
            /\ events' = Publish(events, Event("race:cancelled", Cur.race_id,
                                               [race_id |-> Cur.race_id]))
       ELSE UNCHANGED <<races, events>>
    /\ UNCHANGED <<now, current_race, tick_task, countdowns, lap_calls, last_error, delivered, peripherals>>

-----------------------------------------------------------------------------
(* set_power *)

ClampedAbove(v) == Min(FullPercent, v)

(* line 282: max(0, min(100, power_level)) *)
Clamped(v) == Max(0, Min(FullPercent, v))

PoweredAll(r, lane, v) ==
    [r EXCEPT !.lanes = [k \in DOMAIN r.lanes |->
                           [r.lanes[k] EXCEPT !.power_level = Clamped(v)]]]

(* line 282, on the session *)
Powered(r, lane, v) == [r EXCEPT !.lanes[lane].power_level = Clamped(v)]

(* lines 278-282: nothing happens without a session or for an unknown lane *)
SetPower(lane, v) ==
    /\ HasRace
    /\ lane \in DOMAIN Cur.lanes
    /\ races' = [races EXCEPT ![current_race] = Powered(@, lane, v)]
    /\ UNCHANGED <<now, current_race, tick_task, ticks, countdowns, lap_calls, events,
                   last_error, delivered, peripherals>>

-----------------------------------------------------------------------------
(* The engine in an environment *)

Engine(e) ==
    \/ Advance(e)
    \/ SetupRace(e)
    \/ StartCountdown(e)
    \/ \E c \in 1..MaxCountdowns : CountdownPublish(c)
    \/ \E c \in 1..MaxCountdowns : CountdownSleep(c)
    \/ \E c \in 1..MaxCountdowns : CountdownWake(c)
    \/ \E c \in 1..MaxCountdowns : StartRace(c)
    \/ \E t \in 1..MaxTickTasks : TickStep(t)
    \/ \E t \in 1..MaxTickTasks : TickSleep(t)
    \/ \E lane \in LaneNumbers : RecordLap(lane)
    \/ \E rc \in 1..MaxRaces, lane \in LaneNumbers : RecordLapResume(rc, lane)
    \/ Pause
    \/ Resume
    \/ Stop

Next == Engine(LifecycleEnv)

Spec == Init /\ [][Next]_vars

NextLaps == Engine(LapEnv)

SpecLaps == Init /\ [][NextLaps]_vars

NextPower ==
    \/ Engine(PowerEnv)
    \/ \E lane \in LaneNumbers, v \in PowerInputs : SetPower(lane, v)

SpecPower == Init /\ [][NextPower]_vars

-----------------------------------------------------------------------------
(* SimulatedPWMController, simulator.py lines 158-175 *)

(* get_power, lines 166-168, on the controller pw *)
GetPower(pw, lane) ==
    IF lane \in DOMAIN pw.power_levels THEN pw.power_levels[lane] ELSE 0

(* race_engine.set_power(lane, v), engine.py lines 278-282, on the sessions *)
EngineSetPower(rs, lane, v) ==
    IF HasRace /\ lane \in DOMAIN rs[current_race].lanes
    THEN [rs EXCEPT ![current_race] = Powered(@, lane, v)]
    ELSE rs

(* set_power, lines 158-164: the engine gets the value as it was given *)
PwmSetPower(lane, v) ==
    /\ pwm' = [pwm EXCEPT
                  !.power_levels = IF lane \in DOMAIN @
                                   THEN [@ EXCEPT ![lane] = Max(0, Min(FullPercent, v))]
                                   ELSE @,
                  !.last = [op |-> "set_power", lane |-> lane, power |-> v],
                  !.calls = 1 - @]
    /\ races' = IF lane \in DOMAIN pwm.power_levels
                THEN EngineSetPower(races, lane, v)
                ELSE races
    /\ UNCHANGED <<now, current_race, tick_task, ticks, countdowns, lap_calls, events,
                   delivered, last_error, hub, sim, sensors>>

(* The loop of emergency_stop, lines 172-174, over the lanes in ks *)
RECURSIVE StoppedLanes(_, _)
StoppedLanes(rs, ks) ==
    IF ks = {} THEN rs
    ELSE LET k == CHOOSE x \in ks : \A y \in ks : x <= y
         IN StoppedLanes(EngineSetPower(rs, k, 0), ks \ {k})

(* emergency_stop, lines 170-175 *)
PwmEmergencyStop ==
    /\ pwm' = [pwm EXCEPT
                  !.power_levels = [lane \in DOMAIN @ |-> 0],
                  !.last = [op |-> "emergency_stop", lane |-> 0, power |-> 0],
                  !.calls = 1 - @]
    /\ races' = StoppedLanes(races, DOMAIN pwm.power_levels)
    /\ UNCHANGED <<now, current_race, tick_task, ticks, countdowns, lap_calls, events,
                   delivered, last_error, hub, sim, sensors>>

(* The power actuator with the engine: no session, or sessions set up    *)
(* one after the other, with lane 2 or without it                        *)
PwmEnv ==
    [step |-> 1000, clock |-> 0,
     races |-> MaxRaces, countdowns |-> 0,
     configs |-> {Config(OneLane, "practice", None, FALSE),
                  Config(TwoLanes, "race_laps", None, FALSE)}]

(* The lanes named in the calls: lane 3 is not one of the actuator's *)
PwmLaneInputs == 1..(NumLanes + 1)

NextPwm ==
    \/ SetupRace(PwmEnv)
    \/ \E lane \in LaneNumbers, v \in PowerInputs : SetPower(lane, v)
    \/ \E lane \in PwmLaneInputs, v \in PowerInputs : PwmSetPower(lane, v)
    \/ PwmEmergencyStop

SpecPwm == Init /\ [][NextPwm]_vars

-----------------------------------------------------------------------------
(* start_countdown called more than once: one session of one lane, as     *)
(* many countdowns as the engine is given, no crossings                   *)
LoopEnv ==
    [step |-> 1000, clock |-> CountdownMs + RunSteps * 1000,
     races |-> MaxRaces - 1, countdowns |-> MaxCountdowns,
     configs |-> {Config(OneLane, "practice", None, FALSE)}]

NextLoops ==
    \/ Advance(LoopEnv)
    \/ SetupRace(LoopEnv)
    \/ StartCountdown(LoopEnv)
    \/ \E c \in 1..MaxCountdowns : CountdownPublish(c)
    \/ \E c \in 1..MaxCountdowns : CountdownSleep(c)
    \/ \E c \in 1..MaxCountdowns : CountdownWake(c)
    \/ \E c \in 1..MaxCountdowns : StartRace(c)
    \/ \E t \in 1..MaxTickTasks : TickStep(t)
    \/ \E t \in 1..MaxTickTasks : TickSleep(t)
    \/ Pause
    \/ Resume
    \/ Stop

SpecLoops == Init /\ [][NextLoops]_vars

-----------------------------------------------------------------------------
(* SimulatedLightBarrier, simulator.py lines 124-143; the callback of the  *)
(* sensor of a lane is race_engine.record_lap(lane)                        *)

AcceptsAlways(sn) == TRUE

(* line 138 *)
Accepts(sn) == ~sn.triggered

(* The coroutine goes to the sleep of line 142 *)
SensorSleeps(sn) == [sn EXCEPT !.sleeps = Append(@, now + SensorSleepMs)]

(* trigger(), lines 138-142: up to the first await that suspends *)
SensorTrigger(lane) ==
    /\ sensors[lane].arrived < MaxTriggers
    /\ IF Accepts(sensors[lane])
       THEN LET sn == [sensors[lane] EXCEPT !.arrived = @ + 1, !.invoked = @ + 1,
                                           !.triggered = TRUE]
            IN IF LapIgnored(lane)
               THEN /\ sensors' = [sensors EXCEPT ![lane] = SensorSleeps(sn)]
                    /\ UNCHANGED <<now, races, current_race, tick_task, ticks,
                                   countdowns, lap_calls, events, delivered, last_error>>
               ELSE /\ RecordLapCall(lane)
                    /\ sensors' = [sensors EXCEPT ![lane] =
                                      IF Debounced(Cur.lanes[lane], now)
                                      THEN SensorSleeps(sn)
                                      ELSE [sn EXCEPT !.callbacks = @ + 1]]
       ELSE /\ sensors' = [sensors EXCEPT ![lane].arrived = @ + 1]
            /\ UNCHANGED <<now, races, current_race, tick_task, ticks, countdowns,
                           lap_calls, events, delivered, last_error>>
    /\ UNCHANGED <<hub, sim, pwm>>

(* lines 140-142: record_lap returned *)
SensorReturn(rc, lane) ==
    /\ sensors[lane].callbacks > 0
    /\ RecordLapReturn(rc, lane)
    /\ sensors' = [sensors EXCEPT ![lane] = SensorSleeps([@ EXCEPT !.callbacks = @ - 1])]
    /\ UNCHANGED <<hub, sim, pwm>>

(* line 143: the sleep is over *)
SensorRelease(lane) ==
    /\ sensors[lane].sleeps # <<>>
    /\ now >= Head(sensors[lane].sleeps)
    /\ sensors' = [sensors EXCEPT ![lane].triggered = FALSE, ![lane].sleeps = Tail(@)]
    /\ UNCHANGED <<now, races, current_race, tick_task, ticks, countdowns, lap_calls,
                   events, delivered, last_error, hub, sim, pwm>>

(* A sensor's sleep is over: it ends before the clock moves on *)
SensorDue ==
    \E lane \in LaneNumbers :
       sensors[lane].sleeps # <<>> /\ now >= Head(sensors[lane].sleeps)

(* One session with lane 1 only, so that the sensor of lane 2 reports a   *)
(* lane the session does not have; the clock steps by 0.5 s               *)
SensorEnv ==
    [step |-> 500, clock |-> CountdownMs + SensorRunSteps * 500,
     races |-> MaxRaces - 1, countdowns |-> MaxCountdowns - 1,
     configs |-> {Config(OneLane, "race_laps", None, FALSE)}]

SensorAdvance == ~SensorDue /\ Advance(SensorEnv)

NextSensor ==
    \/ SensorAdvance
    \/ SetupRace(SensorEnv)
    \/ StartCountdown(SensorEnv)
    \/ \E c \in 1..MaxCountdowns : CountdownPublish(c)
    \/ \E c \in 1..MaxCountdowns : CountdownSleep(c)
    \/ \E c \in 1..MaxCountdowns : CountdownWake(c)
    \/ \E c \in 1..MaxCountdowns : StartRace(c)
    \/ \E t \in 1..MaxTickTasks : TickStep(t)
    \/ \E t \in 1..MaxTickTasks : TickSleep(t)
    \/ Pause
    \/ Resume
    \/ \E lane \in LaneNumbers : SensorTrigger(lane)
    \/ \E rc \in 1..MaxRaces, lane \in LaneNumbers : SensorReturn(rc, lane)
    \/ \E lane \in LaneNumbers : SensorRelease(lane)

SpecSensor == Init /\ [][NextSensor]_vars

-----------------------------------------------------------------------------
(* ConnectionManager, websocket.py lines 10-94                             *)

Range(q) == {q[i] : i \in DOMAIN q}

Connected(h) == Range(h.active_connections)

Access(op, write, locked) == [op |-> op, write |-> write, locked |-> locked]

Accessed(h, as) == [h EXCEPT !.accesses = as]

DroppedNone(h, ids) == h

DroppedConnectionOnly(h, ids) ==
    [h EXCEPT !.active_connections = SelectSeq(@, LAMBDA c : c \notin ids)]

(* disconnect, lines 33-35, of every id in ids *)
Dropped(h, ids) ==
    [h EXCEPT !.active_connections = SelectSeq(@, LAMBDA c : c \notin ids),
              !.connection_metadata = [c \in DOMAIN @ \ ids |-> @[c]]]

(* async with self._lock: entered by the call numbered who, left *)
Acquired(h, who) == [h EXCEPT !.lock = who]

ReleasedNever(h) == h

Released(h) == [h EXCEPT !.lock = 0]

(* _lock is free: a call that asks for it goes on without suspending *)
LockFree == hub.lock = 0

HubFrame ==
    UNCHANGED <<now, races, current_race, tick_task, ticks, countdowns, lap_calls,
                events, delivered, last_error, sim, sensors, pwm>>

(* connect, lines 21-29, with a connection id that is new (a uuid4,       *)
(* api/websocket_routes.py line 17); the ids are numbered as handed out   *)
Connect(c) ==
    /\ c = Cardinality(hub.accepted) + 1
    /\ LockFree
    /\ hub' = Accessed([hub EXCEPT !.active_connections = Append(@, c),
                                   !.connection_metadata =
                                       [d \in DOMAIN @ \cup {c} |->
                                          IF d = c THEN {} ELSE @[d]],
                                   !.accepted = @ \cup {c}],
                       {Access("connect", TRUE, TRUE)})
    /\ HubFrame

(* disconnect, lines 31-35 *)
Disconnect(c) ==
    /\ c \in hub.accepted
    /\ LockFree
    /\ hub' = Accessed(Dropped(hub, {c}), {Access("disconnect", TRUE, TRUE)})
    /\ HubFrame

(* subscribe_to_race, lines 37-41 *)
SubscribeToRace(c, race_id) ==
    /\ c \in hub.accepted
    /\ LockFree
    /\ hub' = Accessed(IF c \in DOMAIN hub.connection_metadata
                       THEN [hub EXCEPT !.connection_metadata[c] = @ \cup {race_id}]
                       ELSE hub,
                       {Access("subscribe_to_race", TRUE, TRUE)})
    /\ HubFrame

(* unsubscribe_from_race, lines 43-47 *)
UnsubscribeFromRace(c, race_id) ==
    /\ c \in hub.accepted
    /\ LockFree
    /\ hub' = Accessed(IF c \in DOMAIN hub.connection_metadata
                       THEN [hub EXCEPT !.connection_metadata[c] = @ \ {race_id}]
                       ELSE hub,
                       {Access("unsubscribe_from_race", TRUE, TRUE)})
    /\ HubFrame

(* lines 75-77: the loop goes on to the next id that has a connection *)
RECURSIVE NextRecipient(_, _)
NextRecipient(sd, h) ==
    IF sd.i > Len(sd.ids) \/ sd.ids[sd.i] \in Connected(h)
    THEN sd
    ELSE NextRecipient([sd EXCEPT !.i = @ + 1, !.absent = @ \cup {sd.ids[sd.i]}], h)

(* lines 84-85 and 56: the ids whose delivery failed are disconnected and *)
(* the call returns; disconnect asks for _lock (line 33) and waits for it *)
(* when it is held                                                        *)
CleanedUp(h, b, sd, ids, as) ==
    IF ids = {}
    THEN Accessed([h EXCEPT !.sends[b] = [sd EXCEPT !.pc = "returned"]], as)
    ELSE IF h.lock = 0
    THEN Accessed([Dropped(h, ids) EXCEPT !.sends[b] = [sd EXCEPT !.pc = "returned"]],
                  as \cup {Access("disconnect", TRUE, TRUE)})
    ELSE Accessed([h EXCEPT !.sends[b] = [sd EXCEPT !.pc = "lock"]], as)

(* lines 74-85 from a given place in the loop to the next send_json, or   *)
(* through the clean-up loop to the return                                *)
SendToConnections(h, b, sd, as) ==
    LET nx == NextRecipient(sd, h)
        looked == IF nx.i > sd.i \/ nx.i <= Len(nx.ids)
                  THEN as \cup {Access("_send_to_connections", FALSE, FALSE)} ELSE as
    IN IF nx.i <= Len(nx.ids)
       THEN Accessed([h EXCEPT !.sends[b] = [nx EXCEPT !.pc = "sending"]], looked)
       ELSE CleanedUp(h, b, nx, Range(nx.disconnected), looked)

(* lines 65-68: the subscribers of the race in the order of the dictionary *)
Subscribers(h, race_id) ==
    SelectSeq(h.active_connections, LAMBDA c : race_id \in h.connection_metadata[c])

Sending(op, ids) == [NoSend EXCEPT !.op = op, !.ids = ids]

(* The calls that send are numbered as they are made *)
Unsent(b) ==
    /\ hub.sends[b].pc = "unused"
    /\ \A a \in 1..(b - 1) : hub.sends[a].pc # "unused"

(* broadcast_to_race, lines 62-70, up to the first send_json *)
BroadcastToRace(b, race_id) ==
    /\ Unsent(b)
    /\ LockFree
    /\ hub' = SendToConnections(Released(Acquired(hub, b)), b,
                                Sending("broadcast_to_race", Subscribers(hub, race_id)),
                                {Access("broadcast_to_race", FALSE, TRUE)})
    /\ HubFrame

(* broadcast, lines 58-60, up to the first send_json *)
Broadcast(b) ==
    /\ Unsent(b)
    /\ hub' = SendToConnections(hub, b, Sending("broadcast", hub.active_connections),
                                {Access("broadcast", FALSE, FALSE)})
    /\ HubFrame

(* send_personal, lines 49-53, up to send_json *)
SendPersonal(b, c) ==
    /\ Unsent(b)
    /\ c \in hub.accepted
    /\ hub' = Accessed([hub EXCEPT !.sends[b] =
                            IF c \in Connected(hub)
                            THEN [Sending("send_personal", <<c>>) EXCEPT !.pc = "sending"]
                            ELSE [Sending("send_personal", <<>>) EXCEPT !.pc = "returned"]],
                       {Access("send_personal", FALSE, FALSE)})
    /\ HubFrame

(* lines 78-81 and 52-56: send_json returned (ok) or raised an Exception *)
SendJson(b, ok) ==
    /\ hub.sends[b].pc = "sending"
    /\ LET sd == hub.sends[b]
           c == sd.ids[sd.i]
           nx == IF ok
                 THEN [sd EXCEPT !.i = @ + 1, !.sent = @ \cup {c}]
                 ELSE [sd EXCEPT !.i = @ + 1, !.disconnected = Append(@, c)]
       IN IF sd.op = "send_personal"
          THEN hub' = CleanedUp(hub, b, nx, Range(nx.disconnected), {})
          ELSE hub' = SendToConnections(hub, b, nx, {})
    /\ HubFrame

NextHub ==
    \/ \E c \in ConnectionIds : Connect(c)
    \/ \E c \in ConnectionIds : Disconnect(c)
    \/ \E c \in ConnectionIds, race_id \in HubRaces : SubscribeToRace(c, race_id)
    \/ \E c \in ConnectionIds, race_id \in HubRaces : UnsubscribeFromRace(c, race_id)
    \/ \E b \in 1..MaxSends, race_id \in HubRaces : BroadcastToRace(b, race_id)
    \/ \E b \in 1..MaxSends : Broadcast(b)
    \/ \E b \in 1..MaxSends, c \in ConnectionIds : SendPersonal(b, c)
    \/ \E b \in 1..MaxSends, ok \in BOOLEAN : SendJson(b, ok)

SpecHub == Init /\ [][NextHub]_vars

(* The calls that take _lock or remove a connection, with one connection *)
(* fewer than the hub is given otherwise                                  *)
NextLock ==
    \/ \E c \in 1..(MaxConnections - 1) : Connect(c)
    \/ \E c \in ConnectionIds : Disconnect(c)
    \/ \E c \in ConnectionIds, race_id \in HubRaces : SubscribeToRace(c, race_id)
    \/ \E c \in ConnectionIds, race_id \in HubRaces : UnsubscribeFromRace(c, race_id)
    \/ \E b \in 1..MaxSends, race_id \in HubRaces : BroadcastToRace(b, race_id)
    \/ \E b \in 1..MaxSends, c \in ConnectionIds : SendPersonal(b, c)
    \/ \E b \in 1..MaxSends, ok \in BOOLEAN : SendJson(b, ok)

(* Every send_json comes to an end: it returns or raises *)
SpecLock ==
    /\ Init
    /\ [][NextLock]_vars
    /\ \A b \in 1..MaxSends : WF_vars(\E ok \in BOOLEAN : SendJson(b, ok))

-----------------------------------------------------------------------------
(* A scripted race: two lanes, three laps to go, crossings at given times  *)

(* One session, started once; the clock steps by 0.1 s.  crossings are the *)
(* lane and the time since the race start, in ms, of each record_lap call. *)
ScenarioEnv ==
    [step |-> 100, clock |-> CountdownMs + 3200, races |-> 1, countdowns |-> 1,
     configs |-> {[participants |-> TwoLanes, mode |-> "race_laps", target_laps |-> 3,
                   time_limit_seconds |-> None, fuel_simulation_enabled |-> FALSE]},
     crossings |-> {<<1, 1200>>, <<1, 2300>>, <<1, 3100>>, <<2, 2000>>}]

(* A crossing of the lane is due at this time and is not recorded yet *)
ScenarioDue(lane) ==
    /\ HasRace
    /\ Cur.start_time # None
    /\ <<lane, now - Cur.start_time>> \in ScenarioEnv.crossings
    /\ lane \in DOMAIN Cur.lanes
    /\ Cur.lanes[lane].last_lap_timestamp # now

(* The sensor of the lane reports the crossing *)
ScenarioCrossing(lane) == ScenarioDue(lane) /\ RecordLap(lane)

(* The clock moves on when the crossings of this time are recorded *)
ScenarioAdvance ==
    /\ \A lane \in LaneNumbers : ~(ScenarioDue(lane) /\ ~LapIgnored(lane))
    /\ Advance(ScenarioEnv)

NextScenario ==
    \/ ScenarioAdvance
    \/ SetupRace(ScenarioEnv)
    \/ StartCountdown(ScenarioEnv)
    \/ \E c \in 1..MaxCountdowns : CountdownPublish(c)
    \/ \E c \in 1..MaxCountdowns : CountdownSleep(c)
    \/ \E c \in 1..MaxCountdowns : CountdownWake(c)
    \/ \E c \in 1..MaxCountdowns : StartRace(c)
    \/ \E t \in 1..MaxTickTasks : TickStep(t)
    \/ \E t \in 1..MaxTickTasks : TickSleep(t)
    \/ \E lane \in LaneNumbers : ScenarioCrossing(lane)
    \/ \E rc \in 1..MaxRaces, lane \in LaneNumbers : RecordLapResume(rc, lane)

SpecScenario == Init /\ [][NextScenario]_vars

-----------------------------------------------------------------------------
(* A session met in mid-race: the tick's arithmetic on fuel and position   *)

(* The session was started at the end of its countdown and has run for    *)
(* `run` ms; the clock steps by 1 s.  fuels are the fuel levels the lanes *)
(* may have been brought to, in units of 1/FuelScale percent; limits are  *)
(* the time limits the session may have been given, in seconds.           *)
TickEnv ==
    [step |-> 1000, start |-> CountdownMs, run |-> 120000,
     clock |-> CountdownMs + 120000 + TickRunSteps * 1000,
     fuels |-> {FullPercent * FuelScale, 150, 0},
     limits |-> {None, 121}]

(* Lane 2 after two laps of 1 s, finished first (record_lap, lines 232-269) *)
TickFinishedLane(l, t) ==
    [RecordedLane(RecordedLane(l, t + 1000), t + 2000)
        EXCEPT !.finished = TRUE, !.finish_position = 1]

(* The session: no power on the lanes at the moment, the last tick 100 ms ago *)
TickRace(fuel_on, limit, f1, f2, fin2) ==
    LET r == StartedRace(NewRace(1, TwoLanes, "race_laps", TargetLaps, limit, fuel_on),
                         TickEnv.start)
    IN [r EXCEPT !.elapsed_time_ms = TickEnv.run - TickSleepMs,
                 !.lanes[1].fuel_level = f1,
                 !.lanes[2] = [(IF fin2 THEN TickFinishedLane(@, TickEnv.start) ELSE @)
                                  EXCEPT !.fuel_level = f2],
                 !.finish_order = IF fin2 THEN <<2>> ELSE <<>>]

(* The events published on the way there *)
TickEvents(r, fin2) ==
    SetToBag({Event("race:countdown", r.race_id, [remaining |-> i]) : i \in 1..CountdownFrom})
    (+) SetToBag({Event("race:started", r.race_id, [race_id |-> r.race_id])})
    (+) (IF fin2
         THEN SetToBag({Event("race:lap", r.race_id,
                              [race_id |-> r.race_id, car_id |-> 2, lane |-> 2,
                               lap_number |-> n, lap_time_ms |-> 1000,
                               is_best_lap |-> n = 1]) : n \in 1..2})
         ELSE EmptyBag)

InitTick ==
    \E fuel_on \in BOOLEAN, limit \in TickEnv.limits,
       f1 \in TickEnv.fuels, f2 \in TickEnv.fuels, fin2 \in BOOLEAN :
       /\ now = TickEnv.start + TickEnv.run
       /\ races = <<TickRace(fuel_on, limit, f1, f2, fin2)>>
       /\ current_race = 1
       /\ tick_task = 1
       /\ ticks = [t \in 1..MaxTickTasks |->
                     IF t = 1 THEN Sleeping(TickEnv.start + TickEnv.run - TickSleepMs)
                     ELSE DeadTask]
       /\ countdowns = [c \in 1..MaxCountdowns |->
                          IF c = 1 THEN DoneCountdown ELSE UnusedCountdown]
       /\ lap_calls = [rl \in (1..MaxRaces) \X LaneNumbers |-> 0]
       /\ events = TickEvents(TickRace(fuel_on, limit, f1, f2, fin2), fin2)
       /\ delivered = EmptyBag
       /\ last_error = "none"
       /\ hub = NewHub
       /\ sim = NewSimulator
       /\ sensors = [lane \in LaneNumbers |-> NewSensor]
       /\ pwm = NewPwm

NextTick ==
    \/ Advance(TickEnv)
    \/ \E t \in 1..MaxTickTasks : TickStep(t)
    \/ \E t \in 1..MaxTickTasks : TickSleep(t)
    \/ \E lane \in LaneNumbers, v \in PowerInputs : SetPower(lane, v)
    \/ Pause
    \/ Stop

SpecTick == InitTick /\ [][NextTick]_vars

-----------------------------------------------------------------------------
(* TrackSimulator, simulator.py lines 15-121                               *)

(* The settings of the simulated track (config.py lines 33-34, read from   *)
(* the environment): a base lap time of 0.3 s, lap times drawn within      *)
(* 0.1 s of it.  The session is met one second after its start, the clock  *)
(* steps by 0.1 s.  Lane 1 is the lane that is driven: its power is        *)
(* commanded, from 40 or 100 percent at first, and its crossings are also  *)
(* reported from outside; lane 2 stands without power.                     *)
SimEnv ==
    [step |-> 100, start |-> CountdownMs, run |-> 1000,
     clock |-> CountdownMs + 1000 + SimRunSteps * 100,
     base |-> 300, variances |-> {-100, 100}, driven |-> {1}, powers |-> {40, FullPercent}]

(* The power_level arguments given to set_power while the track is simulated *)
SimPowerInputs == {0, FullPercent}

Distance(a, b) == IF a >= b THEN a - b ELSE b - a

(* lines 77-90, in ms; power is positive here *)
SimLapTime(power, variance) == (SimEnv.base * FullPercent) \div power + variance

(* lines 103-106 *)
SimRecalculated(lap_time, elapsed, new_power) ==
    elapsed + ((lap_time - elapsed) * SimEnv.base * FullPercent) \div (lap_time * new_power)

SimSleeping(tk, pc) == [tk EXCEPT !.pc = pc, !.wake = now + SimSleepMs]

(* lines 59-95: from the test of the outer loop to the next sleep, or to   *)
(* the end of the task; rs is the engine's sessions at that moment        *)
SimLoopTop(tk, lane, rs, variance) ==
    IF ~(sim.running /\ HasRace)
    THEN [tk EXCEPT !.pc = "done"]
    ELSE IF rs[current_race].state # "running"
    THEN SimSleeping(tk, "idle")
    ELSE IF lane \notin DOMAIN rs[current_race].lanes
    THEN [tk EXCEPT !.pc = "done"]
    ELSE IF rs[current_race].lanes[lane].finished
    THEN [tk EXCEPT !.pc = "done"]
    ELSE IF rs[current_race].lanes[lane].power_level <= 0
    THEN SimSleeping(tk, "idle")
    ELSE [pc |-> "wait", wake |-> now + SimSleepMs, rc |-> current_race,
          power |-> rs[current_race].lanes[lane].power_level,
          lap_time |-> SimLapTime(rs[current_race].lanes[lane].power_level, variance),
          elapsed |-> 0]

(* start_simulation, lines 27-39, called when no simulation is running *)
StartSimulation ==
    /\ ~sim.running
    /\ HasRace
    /\ sim' = [sim EXCEPT !.running = TRUE,
                          !.tasks = [lane \in LaneNumbers |->
                                       IF lane \in DOMAIN Cur.lanes
                                       THEN [NoTask EXCEPT !.pc = "ready"]
                                       ELSE NoTask]]
    /\ UNCHANGED <<now, races, current_race, tick_task, ticks, countdowns, lap_calls,
                   events, delivered, last_error, hub, sensors, pwm>>

(* The record_lap call of the task of a lane that has not returned *)
SimCalls(rc, lane) ==
    IF sim.tasks[lane].pc = "record" /\ sim.tasks[lane].rc = rc THEN 1 ELSE 0

(* stop_simulation, lines 41-49: a task cancelled inside record_lap leaves *)
(* it at the await of the broadcast, lines 118-119                         *)
StopSimulation ==
    /\ sim.running
    /\ sim' = [sim EXCEPT !.running = FALSE,
                          !.tasks = [lane \in LaneNumbers |-> NoTask]]
    /\ lap_calls' = [rl \in DOMAIN lap_calls |-> lap_calls[rl] - SimCalls(rl[1], rl[2])]
    /\ UNCHANGED <<now, races, current_race, tick_task, ticks, countdowns,
                   events, delivered, last_error, hub, sensors, pwm>>

(* The task starts, or its sleep of line 61 or 73 is over *)
SimRun(lane) ==
    /\ \/ sim.tasks[lane].pc = "ready"
       \/ sim.tasks[lane].pc = "idle" /\ now >= sim.tasks[lane].wake
    /\ \E variance \in SimEnv.variances :
          sim' = [sim EXCEPT !.tasks[lane] = SimLoopTop(@, lane, races, variance)]
    /\ UNCHANGED <<now, races, current_race, tick_task, ticks, countdowns, lap_calls,
                   events, delivered, last_error, hub, sensors, pwm>>

(* lines 96-108: one turn of the wait after its sleep; lane_state is the   *)
(* object looked up in session tk.rc                                       *)
SimWaited(tk, lane) ==
    LET elapsed == tk.elapsed + SimSleepMs
        new_power == races[tk.rc].lanes[lane].power_level
    IN IF Distance(new_power, tk.power) > PowerChange /\ new_power > 0
       THEN [tk EXCEPT !.elapsed = elapsed, !.power = new_power,
                       !.lap_time = SimRecalculated(tk.lap_time, elapsed, new_power)]
       ELSE [tk EXCEPT !.elapsed = elapsed]

(* lines 94 and 111-112: the wait goes on *)
SimWaitsOn(tk) ==
    /\ Cur.state = "running"
    /\ tk.elapsed < tk.lap_time
    /\ sim.running

(* line 115 *)
SimCompleted(tk) == tk.elapsed >= tk.lap_time /\ sim.running

(* line 116: record_lap is called; when it returns without suspending the *)
(* task is at the top of its loop again                                   *)
SimRecordLap(tk, lane) ==
    IF LapIgnored(lane)
    THEN /\ \E variance \in SimEnv.variances :
              sim' = [sim EXCEPT !.invoked[lane] = @ + 1,
                                 !.tasks[lane] = SimLoopTop(tk, lane, races, variance)]
         /\ UNCHANGED <<now, races, current_race, tick_task, ticks, countdowns,
                        lap_calls, events, delivered, last_error>>
    ELSE /\ RecordLapCall(lane)
         /\ IF Debounced(Cur.lanes[lane], now)
            THEN \E variance \in SimEnv.variances :
                    sim' = [sim EXCEPT !.invoked[lane] = @ + 1,
                                       !.tasks[lane] = SimLoopTop(tk, lane, races, variance)]
            ELSE sim' = [sim EXCEPT !.invoked[lane] = @ + 1,
                                    !.tasks[lane] = [tk EXCEPT !.pc = "record",
                                                               !.rc = current_race]]

(* lines 94-116: the sleep of line 95 is over *)
SimWait(lane) ==
    /\ sim.tasks[lane].pc = "wait"
    /\ now >= sim.tasks[lane].wake
    /\ LET tk == SimWaited(sim.tasks[lane], lane)
       IN IF SimWaitsOn(tk)
          THEN /\ sim' = [sim EXCEPT !.tasks[lane] = SimSleeping(tk, "wait")]
               /\ UNCHANGED <<now, races, current_race, tick_task, ticks, countdowns,
                              lap_calls, events, delivered, last_error>>
          ELSE IF SimCompleted(tk)
          THEN SimRecordLap(tk, lane)
          ELSE /\ \E variance \in SimEnv.variances :
                    sim' = [sim EXCEPT !.tasks[lane] = SimLoopTop(tk, lane, races, variance)]
               /\ UNCHANGED <<now, races, current_race, tick_task, ticks, countdowns,
                              lap_calls, events, delivered, last_error>>
    /\ UNCHANGED <<hub, sensors, pwm>>

(* line 116: record_lap returned; the loop starts again *)
SimReturn(rc, lane) ==
    /\ sim.tasks[lane].pc = "record"
    /\ sim.tasks[lane].rc = rc
    /\ RecordLapReturn(rc, lane)
    /\ \E variance \in SimEnv.variances :
          sim' = [sim EXCEPT !.tasks[lane] = SimLoopTop(@, lane, races', variance)]
    /\ UNCHANGED <<hub, sensors, pwm>>

(* A record_lap call made from outside the simulation returns *)
OutsideLapResume(rc, lane) ==
    /\ lap_calls[<<rc, lane>>] > SimCalls(rc, lane)
    /\ RecordLapResume(rc, lane)

(* A task of the simulation can run: it does before the clock moves on *)
SimDue ==
    \E lane \in LaneNumbers :
       \/ sim.tasks[lane].pc = "ready"
       \/ sim.tasks[lane].pc \in {"idle", "wait"} /\ now >= sim.tasks[lane].wake

SimAdvance == ~SimDue /\ Advance(SimEnv)

(* The session: two lanes at the powers given, started one second ago, the *)
(* last tick 100 ms ago                                                    *)
SimRace(p1, p2) ==
    LET r == StartedRace(NewRace(1, TwoLanes, "race_laps", TargetLaps, None, FALSE),
                         SimEnv.start)
    IN [r EXCEPT !.elapsed_time_ms = SimEnv.run - TickSleepMs,
                 !.lanes[1].power_level = p1,
                 !.lanes[2].power_level = p2]

InitSim ==
    \E p1 \in SimEnv.powers, p2 \in {0} :
       /\ now = SimEnv.start + SimEnv.run
       /\ races = <<SimRace(p1, p2)>>
       /\ current_race = 1
       /\ tick_task = 1
       /\ ticks = [t \in 1..MaxTickTasks |->
                     IF t = 1 THEN Sleeping(SimEnv.start + SimEnv.run - TickSleepMs)
                     ELSE DeadTask]
       /\ countdowns = [c \in 1..MaxCountdowns |->
                          IF c = 1 THEN DoneCountdown ELSE UnusedCountdown]
       /\ lap_calls = [rl \in (1..MaxRaces) \X LaneNumbers |-> 0]
       /\ events = TickEvents(SimRace(p1, p2), FALSE)
       /\ delivered = EmptyBag
       /\ last_error = "none"
       /\ hub = NewHub
       /\ sim = NewSimulator
       /\ sensors = [lane \in LaneNumbers |-> NewSensor]
       /\ pwm = NewPwm

NextSim ==
    \/ SimAdvance
    \/ \E t \in 1..MaxTickTasks : TickStep(t)
    \/ \E t \in 1..MaxTickTasks : TickSleep(t)
    \/ \E lane \in SimEnv.driven, v \in SimPowerInputs : SetPower(lane, v)
    \/ Pause
    \/ Stop
    \/ \E lane \in SimEnv.driven : RecordLap(lane)
    \/ \E rc \in 1..MaxRaces, lane \in SimEnv.driven : OutsideLapResume(rc, lane)
    \/ StartSimulation
    \/ StopSimulation
    \/ \E lane \in LaneNumbers : SimRun(lane)
    \/ \E lane \in LaneNumbers : SimWait(lane)
    \/ \E rc \in 1..MaxRaces, lane \in LaneNumbers : SimReturn(rc, lane)

SpecSim == InitSim /\ [][NextSim]_vars

-----------------------------------------------------------------------------
(* Session lifecycle (checked under Spec) *)

NonTerminal == {"countdown", "running", "paused"}

(* C1: a session whose state is FINISHED never changes state again         *)
(* (FINISHED has no outgoing edge in IDLE -> COUNTDOWN -> RUNNING <->      *)
(* PAUSED -> FINISHED), whatever start_countdown, pause, resume, stop,     *)
(* record_lap and the ticks do.                                            *)
C1_FinishedIsTerminal ==
    [][\A n \in DOMAIN races :
          races[n].state = "finished" => races'[n].state = "finished"]_vars

(* A countdown is still in progress on a session that stop() has put in    *)
(* FINISHED.                                                               *)
StoppedInCountdown ==
    /\ HasRace
    /\ Cur.state = "finished"
    /\ Published("race:cancelled", Cur.race_id) > 0
    /\ \E c \in 1..MaxCountdowns : countdowns[c].pc \notin {"unused", "done"}

(* C2: after stop() during the countdown the countdown is aborted: no step *)
(* makes the session RUNNING, launches a tick loop or publishes            *)
(* race:started.                                                           *)
C2_StopAbortsCountdown ==
    [][StoppedInCountdown =>
          /\ races'[current_race].state # "running"
          /\ tick_task' = tick_task
          /\ PublishedIn(events', "race:started", Cur.race_id)
                = Published("race:started", Cur.race_id)]_vars

(* C3: setup_race replaces the current session only when there is none or  *)
(* it is not in COUNTDOWN, RUNNING or PAUSED.                              *)
C3_SetupSupersedesTerminalOnly ==
    [][current_race' # current_race =>
          (~HasRace \/ Cur.state \notin NonTerminal)]_vars

(* C4: while the current session is RUNNING no step constructs or installs *)
(* another session, and the step in which setup_race raises its conflict   *)
(* error changes neither the sessions (identity, state, lanes,             *)
(* finish_order) nor anything else of the engine.                          *)
C4_SetupWhileRunning ==
    [][(HasRace /\ Cur.state = "running") =>
          /\ current_race' = current_race
          /\ Len(races') = Len(races)
          /\ (last_error' = "RuntimeError: running" /\ last_error' # last_error
                 => UNCHANGED <<now, races, current_race, tick_task, ticks,
                                countdowns, lap_calls, events, delivered>>)]_vars

C4_Witness ==
    /\ HasRace
    /\ Cur.state = "running"
    /\ last_error = "RuntimeError: running"
    /\ Len(races) = 1

(* C5: no session exists in which two participants were given the same     *)
(* lane: every participant has the lane entry built for it.                *)
C5_NoMergedLanes ==
    \A n \in DOMAIN races :
       LET ps == races[n].participants
       IN /\ Len(races[n].lane_keys) = Len(ps)
          /\ \A i \in DOMAIN ps : races[n].lanes[ps[i].lane].car_id = ps[i].car_id

(* The race:countdown events published with a given remaining count *)
CountdownTotal(j) ==
    LET RECURSIVE Sum(_)
        Sum(n) == IF n = 0 THEN 0
                  ELSE CopiesIn(Event("race:countdown", races[n].race_id,
                                      [remaining |-> j]), events) + Sum(n - 1)
    IN Sum(Len(races))

(* Countdown c has published its event for the remaining count j *)
HasPublished(c, j) ==
    \/ countdowns[c].pc = "done"
    \/ countdowns[c].pc \in {"await_countdown", "sleep"} /\ j >= countdowns[c].i
    \/ countdowns[c].pc = "await_state" /\ j > countdowns[c].i

C6_Published ==
    \A j \in 1..CountdownFrom :
       CountdownTotal(j) = Cardinality({c \in 1..MaxCountdowns : HasPublished(c, j)})

C6_Step ==
    \A c \in 1..MaxCountdowns :
       /\ (countdowns[c].pc = "unused" /\ countdowns'[c].pc # "unused") =>
             /\ countdowns'[c].pc = "await_state"
             /\ countdowns'[c].i = CountdownFrom
             /\ races'[current_race].state = "countdown"
       /\ (countdowns[c].pc # "done" /\ countdowns'[c].pc = "done") =>
             /\ \A j \in 1..CountdownFrom : HasPublished(c, j)
             /\ races'[current_race].state = "running"
             /\ races'[current_race].start_time = now
             /\ \A k \in DOMAIN Cur.lanes :
                   races'[current_race].lanes[k].last_lap_timestamp
                     = races'[current_race].start_time
             /\ tick_task' # 0
             /\ ticks[tick_task'].pc = "done"
             /\ ticks'[tick_task'].pc = "ready"

(* C6: start_countdown puts the session in COUNTDOWN; every countdown has  *)
(* published race:countdown for exactly the remaining counts 5 down to the *)
(* one it has reached, once each; when it completes, the session is        *)
(* RUNNING, start_time is the clock's reading, every lane's                *)
(* last_lap_timestamp equals start_time and a new tick loop task exists.   *)
C6_Countdown == []C6_Published /\ [][C6_Step]_vars

C6_Witness ==
    /\ HasRace
    /\ Cur.state = "running"
    /\ Cur.start_time = now
    /\ countdowns[1].pc = "done"
    /\ \A j \in 1..CountdownFrom : CountdownTotal(j) = 1
    /\ tick_task # 0
    /\ ticks[tick_task].pc = "ready"

-----------------------------------------------------------------------------
(* Lap recording (checked under SpecLaps) *)

LapHistory(l) == <<l.current_lap, l.lap_times_ms, l.total_time_ms, l.best_lap_time_ms>>

(* The step is the end of a countdown, that is _start_race *)
StartRaceStep ==
    \E c \in 1..MaxCountdowns : countdowns[c].pc = "sleep" /\ countdowns'[c].pc = "done"

(* C7: while there is no session or the session is not RUNNING, no step    *)
(* changes a lane's current_lap, lap_times_ms, total_time_ms or            *)
(* best_lap_time_ms or publishes race:lap, and last_lap_timestamp changes  *)
(* only when _start_race stamps it: record_lap has no effect then.         *)
C7_NoLapUnlessRunning ==
    [][\A n \in DOMAIN races :
          (n # current_race \/ races[n].state # "running") =>
             /\ PublishedIn(events', "race:lap", races[n].race_id)
                   = Published("race:lap", races[n].race_id)
             /\ \A k \in DOMAIN races[n].lanes :
                   /\ LapHistory(races'[n].lanes[k]) = LapHistory(races[n].lanes[k])
                   /\ \/ races'[n].lanes[k].last_lap_timestamp
                           = races[n].lanes[k].last_lap_timestamp
                      \/ StartRaceStep]_vars

C7_Witness ==
    /\ HasRace
    /\ Cur.state = "paused"
    /\ \E k \in DOMAIN Cur.lanes :
          /\ Cur.lanes[k].current_lap > 0
          /\ ~Cur.lanes[k].finished
          /\ now > Cur.lanes[k].last_lap_timestamp

(* C8: while a lane of the running session has current_lap = 0 and less    *)
(* than 1000 ms have passed since its last_lap_timestamp, a crossing is    *)
(* discarded: no step changes its current_lap, lap_times_ms,               *)
(* total_time_ms, best_lap_time_ms, estimated_position or                  *)
(* last_lap_timestamp, or publishes race:lap.                              *)
C8_DebouncedCrossingDiscarded ==
    [][\A k \in LaneNumbers :
          (/\ HasRace
           /\ Cur.state = "running"
           /\ k \in DOMAIN Cur.lanes
           /\ ~Cur.lanes[k].finished
           /\ Cur.lanes[k].current_lap = 0
           /\ now - Cur.lanes[k].last_lap_timestamp < DebounceMs) =>
             /\ LapHistory(races'[current_race].lanes[k]) = LapHistory(Cur.lanes[k])
             /\ races'[current_race].lanes[k].estimated_position
                   = Cur.lanes[k].estimated_position
             /\ races'[current_race].lanes[k].last_lap_timestamp
                   = Cur.lanes[k].last_lap_timestamp
             /\ PublishedIn(events', "race:lap", Cur.race_id)
                   = Published("race:lap", Cur.race_id)]_vars

RECURSIVE SumSeq(_)
SumSeq(q) == IF q = <<>> THEN 0 ELSE Head(q) + SumSeq(Tail(q))

RECURSIVE MinSeq(_)
MinSeq(q) == IF Len(q) = 1 THEN Head(q) ELSE Min(Head(q), MinSeq(Tail(q)))

C9_Consistent ==
    \A n \in DOMAIN races : \A k \in DOMAIN races[n].lanes :
       LET l == races[n].lanes[k]
       IN /\ l.current_lap = Len(l.lap_times_ms)
          /\ l.total_time_ms = SumSeq(l.lap_times_ms)
          /\ l.best_lap_time_ms = IF l.lap_times_ms = <<>> THEN None
                                  ELSE MinSeq(l.lap_times_ms)

C9_Step ==
    \A n \in DOMAIN races : \A k \in DOMAIN races[n].lanes :
       /\ races'[n].lanes[k].current_lap
            \in {races[n].lanes[k].current_lap, races[n].lanes[k].current_lap + 1}
       /\ races'[n].lanes[k].current_lap = races[n].lanes[k].current_lap + 1 =>
             PublishedIn(events', "race:lap", races[n].race_id)
               = Published("race:lap", races[n].race_id) + 1

(* C9: for every lane current_lap = len(lap_times_ms), total_time_ms is    *)
(* the sum and best_lap_time_ms the minimum of lap_times_ms (None when     *)
(* empty); a step that records a lap (publishes race:lap) raises           *)
(* current_lap by exactly 1, and no step changes it otherwise.             *)
C9_LapHistory == []C9_Consistent /\ [][C9_Step]_vars

C9_Witness ==
    \E n \in DOMAIN races : \E k \in DOMAIN races[n].lanes :
       LET l == races[n].lanes[k]
       IN /\ Len(l.lap_times_ms) = 3
          /\ l.lap_times_ms[3] > l.best_lap_time_ms
          /\ l.lap_times_ms[1] > l.best_lap_time_ms

FinishedCount(r) == Cardinality({j \in DOMAIN r.lanes : r.lanes[j].finished})

-----------------------------------------------------------------------------
(* Finalization (checked under SpecLaps) *)

(* C11: a session all of whose lanes are finished is FINISHED and exactly  *)
(* one race:finished event has been published for it.                      *)
C11_FinishedOnce ==
    \A n \in DOMAIN races :
       AllFinished(races[n]) =>
          /\ races[n].state = "finished"
          /\ Published("race:finished", races[n].race_id) = 1

C12_Order ==
    \A n \in DOMAIN races :
       LET r == races[n]
       IN /\ \A i, j \in DOMAIN r.finish_order :
                r.finish_order[i] = r.finish_order[j] => i = j
          /\ \A i \in DOMAIN r.finish_order :
                /\ r.finish_order[i] \in DOMAIN r.lanes
                /\ r.lanes[r.finish_order[i]].finish_position = i
          /\ \A k \in DOMAIN r.lanes :
                IF r.lanes[k].finished
                THEN r.lanes[k].finish_position \in 1..FinishedCount(r)
                ELSE r.lanes[k].finish_position = None

C12_Step ==
    \A n \in DOMAIN races : \A k \in DOMAIN races[n].lanes :
       races[n].lanes[k].finish_position # None =>
          races'[n].lanes[k].finish_position = races[n].lanes[k].finish_position

(* C12: finish_order has no duplicate lane, finish_order[i] is the lane    *)
(* whose finish_position is i (1-based), the positions assigned are        *)
(* exactly 1..k for the k finished lanes, and a finish_position once       *)
(* assigned is never overwritten.                                          *)
C12_FinishOrder == []C12_Order /\ [][C12_Step]_vars

-----------------------------------------------------------------------------
(* Power commands (checked under SpecPower) *)

C13_Range ==
    \A n \in DOMAIN races : \A k \in DOMAIN races[n].lanes :
       races[n].lanes[k].power_level \in 0..FullPercent

C13_Step ==
    \A n \in DOMAIN races : \A k \in DOMAIN races[n].lanes :
       races'[n].lanes[k].power_level # races[n].lanes[k].power_level =>
          \E v \in PowerInputs :
             races'[n].lanes[k].power_level = Min(FullPercent, Max(0, v))

(* C13: every lane's power_level is within 0..100 whatever values          *)
(* set_power was given, and a set_power call leaves min(100, max(0, v))    *)
(* of its argument v in the lane.                                          *)
C13_PowerClamped == []C13_Range /\ [][C13_Step]_vars

C13_Witness ==
    /\ HasRace
    /\ \E k \in DOMAIN Cur.lanes : Cur.lanes[k].power_level = FullPercent

(* C14: a step that changes a lane's power_level changes a lane of the     *)
(* current session, and nothing but that field of that lane: no other     *)
(* lane, no other field, no session field, no task, no event.              *)
C14_PowerOnly ==
    [][\A n \in DOMAIN races : \A k \in DOMAIN races[n].lanes :
          races'[n].lanes[k].power_level # races[n].lanes[k].power_level =>
             /\ n = current_race
             /\ races' = [races EXCEPT ![n].lanes[k].power_level =
                                           races'[n].lanes[k].power_level]
             /\ UNCHANGED <<now, current_race, tick_task, ticks, countdowns,
                            lap_calls, events, last_error, delivered>>]_vars

C14_Witness ==
    /\ HasRace
    /\ Cur.state = "running"
    /\ DOMAIN Cur.lanes = {1, 2}
    /\ Cur.lanes[1].power_level = 40
    /\ Cur.lanes[2].power_level = 0
    /\ Cur.lanes[1].current_lap > 0

-----------------------------------------------------------------------------
(* Pause, resume and stop (checked under Spec) *)

(* C15: a session becomes PAUSED only from RUNNING, and becomes RUNNING     *)
(* other than by _start_race only from PAUSED; either step changes nothing *)
(* of the session but its state (no lane field) and publishes nothing, so  *)
(* pause and resume in any other state have no effect.                     *)
C15_PauseResume ==
    [][\A n \in DOMAIN races :
          /\ (races'[n].state = "paused" /\ races[n].state # "paused") =>
                /\ n = current_race
                /\ races[n].state = "running"
                /\ races' = [races EXCEPT ![n].state = "paused"]
                /\ events' = events
          /\ (races'[n].state = "running" /\ races[n].state # "running"
                 /\ ~StartRaceStep) =>
                /\ n = current_race
                /\ races[n].state = "paused"
                /\ races' = [races EXCEPT ![n].state = "running"]
                /\ events' = events]_vars

C15_Witness ==
    /\ HasRace
    /\ Cur.state = "paused"
    /\ Cur.elapsed_time_ms > 0
    /\ tick_task # 0
    /\ ticks[tick_task].pc = "done"

C16_Frozen ==
    \A n \in DOMAIN races :
       races[n].state = "paused" =>
          /\ races'[n].elapsed_time_ms = races[n].elapsed_time_ms
          /\ \A k \in DOMAIN races[n].lanes :
                races'[n].lanes[k].estimated_position
                  = races[n].lanes[k].estimated_position

C16_Accrued ==
    \A n \in DOMAIN races :
       races[n].start_time # None =>
          /\ races[n].elapsed_time_ms <= now - races[n].start_time - races[n].paused_ms
          /\ \A k \in DOMAIN races[n].lanes :
                races[n].lanes[k].total_time_ms
                  <= now - races[n].start_time - races[n].paused_ms

(* C16: while the session is PAUSED no step changes elapsed_time_ms or a   *)
(* lane's estimated_position, and the time spent PAUSED is never part of   *)
(* elapsed_time_ms or of the lap times: both stay within the time the      *)
(* session has been running.                                               *)
C16_PausedTimeNotCounted == []C16_Accrued /\ [][C16_Frozen]_vars

C17_Stopped ==
    \A n \in DOMAIN races :
       races[n].stopped_from \in NonTerminal =>
          /\ races[n].state = "finished"
          /\ Published("race:cancelled", races[n].race_id) >= 1
          /\ n = current_race => (tick_task = 0 \/ ticks[tick_task].pc = "done")

C17_Untouched ==
    \A n \in DOMAIN races :
       races[n].stopped_from \in NonTerminal =>
          /\ races'[n].elapsed_time_ms = races[n].elapsed_time_ms
          /\ \A k \in DOMAIN races[n].lanes :
                /\ races'[n].lanes[k].estimated_position
                     = races[n].lanes[k].estimated_position
                /\ races'[n].lanes[k].fuel_level = races[n].lanes[k].fuel_level

(* C17: a session that stop() found in COUNTDOWN, RUNNING or PAUSED is     *)
(* FINISHED from then on, a race:cancelled event has been published for    *)
(* it, the engine's tick loop task is cancelled, and no step changes its   *)
(* elapsed_time_ms or a lane's estimated_position or fuel_level.           *)
C17_StopFinishes == []C17_Stopped /\ [][C17_Untouched]_vars

(* C18: stop() on a session that is already FINISHED changes no session    *)
(* state and publishes no further event: no step publishes race:cancelled  *)
(* for a session whose state is FINISHED.                                  *)
C18_StopIdempotent ==
    [][\A n \in DOMAIN races :
          races[n].state = "finished" =>
             PublishedIn(events', "race:cancelled", races[n].race_id)
               = Published("race:cancelled", races[n].race_id)]_vars

-----------------------------------------------------------------------------
(* Finalization by the time limit (checked under SpecLaps) *)

(* The step of a tick that brings elapsed_time_ms of session n to its *)
(* time limit                                                         *)
C19_LimitObserved(n) ==
    /\ ~TimeLimitReached(races[n])
    /\ TimeLimitReached(races'[n])

C19_Finalized(n) ==
    /\ races'[n].state = "finished"
    /\ tick_task # 0 /\ ticks'[tick_task].pc = "done"
    /\ PublishedIn(events', "race:finished", races[n].race_id)
         = Published("race:finished", races[n].race_id) + 1
    /\ BagIn(Event("race:finished", races[n].race_id,
                   [finish_order |-> races'[n].finish_order,
                    results |-> [k \in DOMAIN races'[n].lanes |->
                        [car_id |-> races'[n].lanes[k].car_id,
                         laps |-> races'[n].lanes[k].current_lap,
                         total_time_ms |-> races'[n].lanes[k].total_time_ms,
                         best_lap_ms |-> races'[n].lanes[k].best_lap_time_ms,
                         position |-> races'[n].lanes[k].finish_position]]]),
             events')

C19_Delivered(n) ==
    PublishedIn(delivered', "race:finished", races[n].race_id)
      = PublishedIn(delivered, "race:finished", races[n].race_id) + 1

(* The part of C19 that does not depend on the delivery: the tick that    *)
(* observes the time limit sets the state to FINISHED, ends the tick loop *)
(* task and hands one race:finished event with the finish order and the   *)
(* per-lane results to the broadcast.                                     *)
C19_FinalizedByTick ==
    [][\A n \in DOMAIN races : C19_LimitObserved(n) => C19_Finalized(n)]_vars

(* C19: the tick that observes elapsed_time_ms >= time_limit_seconds*1000 *)
(* finalizes the session in that step: the state becomes FINISHED, the    *)
(* tick loop task ends, and a race:finished event with the finish order   *)
(* and the per-lane results is handed to the broadcast and delivered to   *)
(* the subscribers of the race.                                           *)
C19_TimeLimitFinalizes ==
    [][\A n \in DOMAIN races :
          C19_LimitObserved(n) => C19_Finalized(n) /\ C19_Delivered(n)]_vars

-----------------------------------------------------------------------------
(* The lanes that finalization finishes (checked under SpecLaps) *)

(* A step in which _finish_race runs for session n *)
C20_Finalization(n) ==
    PublishedIn(events', "race:finished", races[n].race_id)
      > Published("race:finished", races[n].race_id)

C20_Unfinished(n) == {k \in DOMAIN races[n].lanes : ~races[n].lanes[k].finished}

(* The lane numbers of a set in ascending order *)
RECURSIVE C20_Ascending(_)
C20_Ascending(S) ==
    IF S = {} THEN <<>>
    ELSE LET k == CHOOSE x \in S : \A y \in S : x <= y
         IN <<k>> \o C20_Ascending(S \ {k})

(* The last m entries of a sequence *)
C20_Last(s, m) == SubSeq(s, Len(s) - m + 1, Len(s))

C20_AllFinished(n) ==
    /\ Len(races'[n].finish_order) >= Len(races[n].finish_order)
    /\ SubSeq(races'[n].finish_order, 1, Len(races[n].finish_order))
         = races[n].finish_order
    /\ \A k \in DOMAIN races'[n].lanes :
          /\ races'[n].lanes[k].finished
          /\ \E i \in 1..Len(races'[n].finish_order) : races'[n].finish_order[i] = k
    /\ Len(races'[n].finish_order) >= Cardinality(C20_Unfinished(n))
    /\ {C20_Last(races'[n].finish_order, Cardinality(C20_Unfinished(n)))[i] :
           i \in 1..Cardinality(C20_Unfinished(n))} = C20_Unfinished(n)

(* The part of C20 that does not depend on the order: finalization keeps  *)
(* the earlier entries of finish_order, appends the lanes that were not   *)
(* finished after them, and leaves every lane finished and in             *)
(* finish_order.                                                          *)
C20_FinalizationFinishesAll ==
    [][\A n \in DOMAIN races : C20_Finalization(n) => C20_AllFinished(n)]_vars

(* C20: finalization marks every lane that was not finished as finished   *)
(* and appends those lanes to finish_order in ascending lane number,      *)
(* after the lanes that finished earlier; afterwards every lane of the    *)
(* session is finished and is in finish_order.                            *)
C20_FinalizationOrder ==
    [][\A n \in DOMAIN races :
          C20_Finalization(n) =>
             /\ C20_AllFinished(n)
             /\ C20_Last(races'[n].finish_order, Cardinality(C20_Unfinished(n)))
                  = C20_Ascending(C20_Unfinished(n))]_vars

-----------------------------------------------------------------------------
(* Position and fuel (checked under SpecTick) *)

(* A tick loop task ran _tick in this step: it went on to its next await, *)
(* or it finalized the session and ended.                                 *)
Ticked ==
    \E t \in 1..MaxTickTasks :
       /\ ticks[t].pc \in {"ready", "sleep"}
       /\ now >= ticks[t].wake
       /\ HasRace /\ Cur.state = "running"
       /\ ticks'[t] # ticks[t]
       /\ lap_calls' = lap_calls
       /\ ticks'[t].pc = "done" =>
             PublishedIn(events', "race:finished", Cur.race_id)
               > Published("race:finished", Cur.race_id)

C22_InRange ==
    \A n \in DOMAIN races : \A k \in DOMAIN races[n].lanes :
       /\ races[n].lanes[k].estimated_position >= 0
       /\ races[n].lanes[k].estimated_position < PositionScale

C22_Frozen ==
    Ticked =>
       \A n \in DOMAIN races : \A k \in DOMAIN races[n].lanes :
          races[n].lanes[k].power_level = 0 =>
             races'[n].lanes[k].estimated_position = races[n].lanes[k].estimated_position

(* C22: every lane's estimated_position is a fraction in [0,1) (here a     *)
(* numerator in 0..PositionScale-1) in every reachable state, and a tick   *)
(* leaves it as it was for every lane whose power_level is 0.              *)
C22_PositionBounded == []C22_InRange /\ [][C22_Frozen]_vars

(* A tick has run at a later time than the one that gave a lane its       *)
(* position, the lane's power being 0 by then.                            *)
C22_Witness ==
    \E k \in DOMAIN races[1].lanes :
       /\ races[1].lanes[k].power_level = 0
       /\ races[1].lanes[k].estimated_position > 0
       /\ \E v \in PowerInputs :
             races[1].lanes[k].estimated_position
                = (TickEnv.run * Clamped(v)) % PositionScale
       /\ races[1].elapsed_time_ms > TickEnv.run

C23_InRange ==
    \A n \in DOMAIN races : \A k \in DOMAIN races[n].lanes :
       /\ races[n].lanes[k].fuel_level >= 0
       /\ races[n].lanes[k].fuel_level <= FullPercent * FuelScale

C23_Consumed ==
    Ticked =>
       \A k \in DOMAIN Cur.lanes :
          Cur'.lanes[k].fuel_level =
             IF Cur.fuel_simulation_enabled /\ ~Cur.lanes[k].finished
             THEN IF Cur.lanes[k].fuel_level >= Cur.lanes[k].power_level
                  THEN Cur.lanes[k].fuel_level - Cur.lanes[k].power_level
                  ELSE 0
             ELSE Cur.lanes[k].fuel_level

(* C23: with fuel simulation enabled a tick lowers the fuel_level of every *)
(* lane that is not finished by power_level * 0.001 (0.1 at full power),   *)
(* not below 0, and leaves a finished lane's fuel_level alone; with fuel   *)
(* simulation disabled a tick changes no fuel_level; fuel_level is in      *)
(* [0,100] in every reachable state.                                       *)
C23_FuelConsumption == []C23_InRange /\ [][C23_Consumed]_vars

(* A tick has emptied the tank of lane 1 from a level below one tick's    *)
(* consumption, and has left the finished lane 2 its fuel.                *)
C23_Witness ==
    /\ races[1].fuel_simulation_enabled
    /\ races[1].elapsed_time_ms > TickEnv.run
    /\ races[1].lanes[1].power_level = FullPercent
    /\ races[1].lanes[1].fuel_level = 0
    /\ races[1].lanes[2].finished
    /\ races[1].lanes[2].power_level = FullPercent
    /\ races[1].lanes[2].fuel_level > 0

-----------------------------------------------------------------------------
(* Ticks and cancellation (checked under SpecTick) *)

(* What one whole tick at time t makes of a lane that is not finished *)
C29_TickedLane(r, l, t) ==
    [l EXCEPT
       !.estimated_position =
           IF l.last_lap_timestamp # 0 /\ l.power_level > 0
           THEN ((t - l.last_lap_timestamp) * l.power_level) % PositionScale
           ELSE @,
       !.fuel_level =
           IF ~r.fuel_simulation_enabled THEN @
           ELSE IF @ >= l.power_level THEN @ - l.power_level ELSE 0]

(* A step has written something that only a tick writes *)
C29_TickWrote(n) ==
    \/ races'[n].elapsed_time_ms # races[n].elapsed_time_ms
    \/ \E k \in DOMAIN races[n].lanes :
          \/ races'[n].lanes[k].fuel_level # races[n].lanes[k].fuel_level
          \/ /\ races'[n].lanes[k].estimated_position
                  # races[n].lanes[k].estimated_position
             /\ races'[n].lanes[k].current_lap = races[n].lanes[k].current_lap

C29_WholeTick(n) ==
    /\ races'[n].elapsed_time_ms = now - races[n].start_time
    /\ \A k \in DOMAIN races[n].lanes :
          ~races[n].lanes[k].finished =>
             /\ races'[n].lanes[k].estimated_position
                  = C29_TickedLane(races[n], races[n].lanes[k], now).estimated_position
             /\ races'[n].lanes[k].fuel_level
                  = C29_TickedLane(races[n], races[n].lanes[k], now).fuel_level

(* The tick loop task is ended from outside, or ends itself in           *)
(* _finish_race, in this step                                            *)
C29_Cancelled ==
    /\ tick_task # 0
    /\ ticks[tick_task].pc # "done"
    /\ ticks'[tick_task].pc = "done"

C29_Step ==
    \A n \in DOMAIN races :
       /\ C29_TickWrote(n) => C29_WholeTick(n)
       /\ (C29_Cancelled /\ ~Ticked) => ~C29_TickWrote(n)

(* C29: no tick is applied in part, whether or not the tick loop is      *)
(* cancelled by pause, stop or finalization: a step that writes          *)
(* elapsed_time_ms, or a lane's estimated_position or fuel_level as a    *)
(* tick does, writes the elapsed time and the position and fuel of every *)
(* lane that is not finished, and a step that cancels the tick loop task *)
(* from outside writes none of them.                                     *)
C29_TickAllOrNothing == [][C29_Step]_vars

(* pause() has cancelled the tick loop task after a tick that moved a    *)
(* lane and burnt its fuel                                               *)
C29_Witness ==
    /\ races[1].state = "paused"
    /\ ticks[tick_task].pc = "done"
    /\ races[1].fuel_simulation_enabled
    /\ races[1].elapsed_time_ms > TickEnv.run
    /\ \E k \in DOMAIN races[1].lanes :
          /\ races[1].lanes[k].power_level > 0
          /\ races[1].lanes[k].estimated_position > 0
          /\ races[1].lanes[k].fuel_level \notin TickEnv.fuels

-----------------------------------------------------------------------------
(* The scripted race (checked under SpecScenario) *)

C21_Abs(x) == IF x >= 0 THEN x ELSE -x

(* The lap times the specification gives for the scenario, and how far    *)
(* "about" may be off                                                     *)
C21_Stated == [laps |-> <<1100, 900, 800>>, tolerance |-> 100]

(* The times between the crossings at 1.2 s, 2.3 s and 3.1 s *)
C21_Between == <<1200, 1100, 800>>

(* C21 as stated: with crossings of lane 1 recorded 1.2 s, 2.3 s and      *)
(* 3.1 s after the race start, the three lap times of lane 1 are          *)
(* [1100, 900, 800] to within the tolerance.                              *)
C21_StatedLapTimes ==
    \A n \in DOMAIN races :
       (1 \in DOMAIN races[n].lanes /\ races[n].lanes[1].current_lap = 3) =>
          \A i \in 1..3 :
             C21_Abs(races[n].lanes[1].lap_times_ms[i] - C21_Stated.laps[i])
                <= C21_Stated.tolerance

C21_LapTimes ==
    \A n \in DOMAIN races :
       1 \in DOMAIN races[n].lanes =>
          /\ races[n].lanes[1].current_lap <= 3
          /\ races[n].lanes[1].lap_times_ms
               = SubSeq(C21_Between, 1, races[n].lanes[1].current_lap)
          /\ races[n].lanes[1].finished =>
                /\ races[n].lanes[1].current_lap = 3
                /\ races[n].lanes[1].finish_position = 1
                /\ races[n].finish_order = <<1>>

C21_FinishStep ==
    \A n \in DOMAIN races :
       (1 \in DOMAIN races[n].lanes /\ races[n].lanes[1].current_lap < 3) =>
          ~races'[n].lanes[1].finished

(* C21, amended: with crossings of lane 1 recorded 1.2 s, 2.3 s and 3.1 s *)
(* after the race start, the lap times of lane 1 are the times between    *)
(* the crossings, [1200, 1100, 800], the first one counted from the race  *)
(* start; lane 1 is not finished before its 3rd lap and finishes with     *)
(* finish_position 1.                                                     *)
C21_Scenario == []C21_LapTimes /\ [][C21_FinishStep]_vars

(* Lane 1 has finished after its third crossing *)
C21_Witness ==
    /\ HasRace
    /\ Cur.lanes[1].finished
    /\ Cur.lanes[1].current_lap = 3
    /\ Cur.lanes[1].last_lap_timestamp = Cur.start_time + 3100
    /\ Cur.state = "running"

-----------------------------------------------------------------------------
(* The power actuator (checked under SpecPwm) *)

(* p clamped into [0,100] *)
C28_Clamp(p) == IF p < 0 THEN 0 ELSE IF p > FullPercent THEN FullPercent ELSE p

(* The engine's power_level of a lane of the current session is v after  *)
(* the step                                                              *)
C28_EngineHas(lane, v) ==
    (current_race' # 0 /\ lane \in DOMAIN races'[current_race'].lanes) =>
       races'[current_race'].lanes[lane].power_level = v

C28_Step ==
    pwm'.calls # pwm.calls =>
       /\ pwm'.last.op = "set_power" =>
             (pwm'.last.lane \in DOMAIN pwm.power_levels =>
                /\ GetPower(pwm', pwm'.last.lane) = C28_Clamp(pwm'.last.power)
                /\ C28_EngineHas(pwm'.last.lane, C28_Clamp(pwm'.last.power)))
       /\ pwm'.last.op = "emergency_stop" =>
             \A lane \in DOMAIN pwm.power_levels :
                /\ GetPower(pwm', lane) = 0
                /\ C28_EngineHas(lane, 0)

(* C28: after set_power(lane, p) on the controller for one of its lanes,  *)
(* get_power(lane) is p clamped into [0,100], and so is the engine's      *)
(* power_level of that lane when the current session has it; after        *)
(* emergency_stop every lane of the controller, and every such lane of    *)
(* the current session, has power 0.                                      *)
C28_ActuatorAndEngineAgree == [][C28_Step]_vars

(* A value above the range was set on lane 2 of a session that has it *)
C28_Witness ==
    /\ pwm.last = [op |-> "set_power", lane |-> 2, power |-> 250]
    /\ HasRace
    /\ 2 \in DOMAIN Cur.lanes
    /\ Cur.lanes[2].power_level = FullPercent
    /\ GetPower(pwm, 2) = FullPercent
    /\ Cur.lanes[1].power_level # FullPercent

-----------------------------------------------------------------------------
(* The lap sensor (checked under SpecSensor)                               *)

(* A trigger() call is made on the sensor of the lane in this step *)
C27_Arrives(lane) == sensors'[lane].arrived = sensors[lane].arrived + 1

(* An earlier trigger of the sensor is in its callback or in the sleep    *)
(* that follows it                                                        *)
C27_InWindow(lane) == sensors[lane].callbacks > 0 \/ sensors[lane].sleeps # <<>>

(* record_lap calls of the lane that have not returned *)
C27_InFlight(lane) == lap_calls[<<1, lane>>] + lap_calls[<<2, lane>>]

C27_Step ==
    \A lane \in LaneNumbers :
       /\ C27_Arrives(lane) /\ ~C27_InWindow(lane)
             => sensors'[lane].invoked = sensors[lane].invoked + 1
       /\ C27_Arrives(lane) /\ C27_InWindow(lane)
             => /\ sensors'[lane].invoked = sensors[lane].invoked
                /\ races' = races
                /\ lap_calls' = lap_calls
                /\ events' = events
       /\ sensors'[lane].invoked # sensors[lane].invoked => C27_Arrives(lane)
       /\ C27_InFlight(lane)' > C27_InFlight(lane) => C27_InFlight(lane) = 0

C27_OneAtATime ==
    \A lane \in LaneNumbers :
       /\ sensors[lane].callbacks + Len(sensors[lane].sleeps) <= 1
       /\ C27_InFlight(lane) = sensors[lane].callbacks
       /\ sensors[lane].invoked <= sensors[lane].arrived

(* C27: a trigger that finds no earlier trigger of its sensor in its      *)
(* window invokes record_lap exactly once; a trigger that arrives while   *)
(* an earlier one is in its callback or in the 0.1 s sleep after it       *)
(* invokes nothing and leaves the engine as it is; so at most one         *)
(* record_lap call of a sensor is in flight at any time.                  *)
C27_SensorInvokesOnce == []C27_OneAtATime /\ [][C27_Step]_vars

(* The sensor of lane 1 has had three triggers, two of them accepted with *)
(* a lap recorded for each, and one ignored                               *)
C27_Witness ==
    /\ sensors[1].arrived = 3
    /\ sensors[1].invoked = 2
    /\ HasRace
    /\ Cur.lanes[1].current_lap = 2

-----------------------------------------------------------------------------
(* The simulated track (checked under SpecSim)                             *)

(* The task of the lane calls record_lap in this step *)
SimInvokes(lane) == sim'.invoked[lane] = sim.invoked[lane] + 1

(* The power level the task of the lane reads (line 99) *)
SimPowerRead(lane) == races[sim.tasks[lane].rc].lanes[lane].power_level

(* A wait begins only for a lane with power: lines 69-74 *)
C25_WaitBeginsWithPower ==
    [][\A lane \in LaneNumbers :
          (/\ sim'.tasks[lane] # sim.tasks[lane]
           /\ sim'.tasks[lane].pc = "wait"
           /\ sim'.tasks[lane].elapsed = 0)
             => races[current_race].lanes[lane].power_level > 0]_vars

(* C25: the simulation calls record_lap for a lane only while the lane's  *)
(* power level is positive; a wait during which the power level went to   *)
(* 0 or below does not end in a call before the power level is positive   *)
(* again.                                                                 *)
C25_NoLapWithoutPower ==
    [][\A lane \in LaneNumbers : SimInvokes(lane) => SimPowerRead(lane) > 0]_vars

(* A simulation that was stopped calls nothing: lines 41-49 and 118-119 *)
C26_StoppedSimulationInvokesNothing ==
    [][~sim.running \/ ~sim'.running => sim'.invoked = sim.invoked]_vars

(* C26: the simulation calls record_lap for a lane only when the session  *)
(* is RUNNING and the lane unfinished at the call; a wait ended by a      *)
(* pause, a stop, the end of the session or the finish of the lane leads  *)
(* to no call.                                                            *)
C26_LapOnlyWhileRacing ==
    [][\A lane \in LaneNumbers :
          SimInvokes(lane)
             => /\ HasRace
                /\ Cur.state = "running"
                /\ lane \in DOMAIN Cur.lanes
                /\ ~Cur.lanes[lane].finished]_vars

-----------------------------------------------------------------------------
(* The hub (checked under SpecHub)                                         *)

(* The call b returns in this step *)
C24_Returns(b) == hub.sends[b].pc # "returned" /\ hub'.sends[b].pc = "returned"

C24_Failed(sd) == Range(sd.disconnected)

C24_Step ==
    \A b \in 1..MaxSends :
       /\ hub.sends[b].pc = "sending" => hub'.sends[b].pc \in {"sending", "returned"}
       /\ C24_Returns(b)
             => /\ \A c \in C24_Failed(hub'.sends[b]) :
                      /\ c \notin Range(hub'.active_connections)
                      /\ c \notin DOMAIN hub'.connection_metadata
                /\ \A c \in Range(hub'.sends[b].ids) :
                      \/ c \in hub'.sends[b].sent
                      \/ c \in C24_Failed(hub'.sends[b])
                      \/ c \in hub'.sends[b].absent
       /\ \A c \in hub'.sends[b].absent \ hub.sends[b].absent :
             c \notin Range(hub.active_connections)

C24_Outcome ==
    \A b \in 1..MaxSends :
       /\ hub.sends[b].pc \in {"unused", "sending", "returned"}
       /\ hub.sends[b].sent \cap C24_Failed(hub.sends[b]) = {}
       /\ hub.sends[b].pc = "returned"
             => \A c \in C24_Failed(hub.sends[b]) :
                   /\ c \notin Range(hub.active_connections)
                   /\ c \notin DOMAIN hub.connection_metadata

(* C24: a broadcast whose delivery to a connection fails goes on and      *)
(* returns to its caller; when it returns every connection whose delivery *)
(* failed is out of active_connections and of connection_metadata, and    *)
(* every other connection of the snapshot has received the message,       *)
(* unless it had been disconnected by the time of its turn.               *)
C24_FailureIsContained == []C24_Outcome /\ [][C24_Step]_vars

(* A broadcast to a race returned: the delivery to its first subscriber   *)
(* failed, a later subscriber received the message                        *)
C24_Witness ==
    \E b \in 1..MaxSends :
       /\ hub.sends[b].op = "broadcast_to_race"
       /\ hub.sends[b].pc = "returned"
       /\ Len(hub.sends[b].ids) >= 2
       /\ hub.sends[b].ids[1] \in C24_Failed(hub.sends[b])
       /\ hub.sends[b].ids[2] \in hub.sends[b].sent

(* The writes of the dictionaries and the snapshot of broadcast_to_race   *)
(* are made with _lock held                                               *)
C30_WritesUnderLock ==
    \A a \in hub.accesses : a.write \/ a.op = "broadcast_to_race" => a.locked

(* C30: connect, disconnect, subscribe_to_race and unsubscribe_from_race  *)
(* change the membership, and broadcast_to_race, broadcast and            *)
(* send_personal read it to choose the recipients, with _lock held.       *)
C30_MembershipUnderLock ==
    \A a \in hub.accesses :
       a.op \in {"connect", "disconnect", "subscribe_to_race", "unsubscribe_from_race",
                 "broadcast_to_race", "broadcast", "send_personal"}
          => a.locked

-----------------------------------------------------------------------------
(* The membership of the hub (checked under SpecHub)                       *)

C36_SameKeys == DOMAIN hub.connection_metadata = Range(hub.active_connections)

(* The subscriptions the hub holds: pairs of a connection id and a race id *)
C36_Subscriptions(h) ==
    {cr \in (DOMAIN h.connection_metadata) \X HubRaces : cr[2] \in h.connection_metadata[cr[1]]}

C36_Step ==
    /\ \A cr \in C36_Subscriptions(hub') : cr[1] \in Range(hub'.active_connections)
    /\ \A cr \in C36_Subscriptions(hub') \ C36_Subscriptions(hub) :
          cr[1] \in Range(hub.active_connections)
    /\ \A c \in Range(hub.active_connections) \ Range(hub'.active_connections) :
          c \notin DOMAIN hub'.connection_metadata

(* C36: the connections with subscription metadata are the active         *)
(* connections in every state; a connection that is disconnected or       *)
(* dropped after a failed delivery keeps no subscription, and a           *)
(* subscription is only ever added for a connection that is active.       *)
C36_MetadataFollowsConnections == []C36_SameKeys /\ [][C36_Step]_vars

(* A connection that had subscribed was dropped after a failed delivery,  *)
(* another one is active and subscribed                                   *)
C36_Witness ==
    /\ \E b \in 1..MaxSends :
          /\ hub.sends[b].pc = "returned"
          /\ hub.sends[b].op = "broadcast_to_race"
          /\ hub.sends[b].disconnected # <<>>
    /\ C36_Subscriptions(hub) # {}
    /\ Cardinality(hub.accepted) > Len(hub.active_connections)

-----------------------------------------------------------------------------
(* The lock of the hub (checked under SpecLock)                            *)

(* No call is suspended with _lock held, none waits for it *)
C35_LockFreeAtSuspension ==
    /\ hub.lock = 0
    /\ \A b \in 1..MaxSends :
          /\ hub.sends[b].pc \in {"unused", "sending", "returned"}
          /\ hub.sends[b].pc = "sending" => hub.sends[b].i <= Len(hub.sends[b].ids)

(* Each result of a send_json takes the call further down its list *)
C35_Step ==
    \A b \in 1..MaxSends :
       hub.sends[b].pc = "sending" /\ hub'.sends[b] # hub.sends[b]
          => /\ hub'.sends[b].i > hub.sends[b].i
             /\ hub'.sends[b].ids = hub.sends[b].ids

C35_Terminates ==
    \A b \in 1..MaxSends : hub.sends[b].pc = "sending" ~> hub.sends[b].pc = "returned"

(* C35: a broadcast or a personal message that has started returns, given *)
(* that each send_json comes to an end, whatever other calls are made     *)
(* meanwhile; _lock is not held at any suspension and no call waits for   *)
(* it, the removal of a connection after a failed delivery included.      *)
C35_SendsTerminate ==
    /\ []C35_LockFreeAtSuspension
    /\ [][C35_Step]_vars
    /\ C35_Terminates

(* A broadcast to a race and a personal message were in progress          *)
(* together; both returned, each after a failed delivery                  *)
C35_Witness ==
    /\ hub.sends[1].pc = "returned"
    /\ hub.sends[2].pc = "returned"
    /\ {hub.sends[1].op, hub.sends[2].op} = {"broadcast_to_race", "send_personal"}
    /\ hub.sends[1].disconnected # <<>>
    /\ hub.sends[2].disconnected # <<>>

-----------------------------------------------------------------------------
(* The tick loop tasks (checked under SpecLoops)                           *)

(* The tick loop tasks that have not ended *)
C31_Alive == {t \in 1..MaxTickTasks : ticks[t].pc # "done"}

(* Two tick loops are alive only after start_countdown was called twice *)
C31_OneLoopPerCountdown == Cardinality(C31_Alive) <= Max(1, Cardinality(UsedCountdowns))

(* C31: at most one tick loop task is alive at any time, whatever calls   *)
(* of start_countdown, pause, resume, stop and setup_race are made and    *)
(* however they interleave.                                               *)
C31_OneTickLoop == Cardinality(C31_Alive) <= 1

-----------------------------------------------------------------------------
(* Crossings in flight together (checked under SpecLaps)                   *)

(* A lane counts a lap only while it is unfinished: lines 225-226 *)
C32_LapsOnlyWhileUnfinished ==
    [][\A n \in DOMAIN races : \A k \in DOMAIN races[n].lanes :
          races'[n].lanes[k].current_lap # races[n].lanes[k].current_lap
             => ~races[n].lanes[k].finished]_vars

(* C32: in race_laps mode with target_laps >= 1 no lane's current_lap     *)
(* goes beyond target_laps, record_lap calls of one lane in flight        *)
(* together included.                                                     *)
C32_LapsWithinTarget ==
    \A n \in DOMAIN races : \A k \in DOMAIN races[n].lanes :
       races[n].mode = "race_laps" /\ races[n].target_laps >= 1
          => races[n].lanes[k].current_lap <= races[n].target_laps

-----------------------------------------------------------------------------
(* Terminal events (checked under SpecLaps)                                *)

(* race:finished is published for a session only by _finish_race, which   *)
(* leaves it FINISHED: lines 317 and 327                                  *)
C33_FinishedEventMeansFinished ==
    [][\A n \in DOMAIN races :
          PublishedIn(events', "race:finished", races[n].race_id)
             > PublishedIn(events, "race:finished", races[n].race_id)
             => /\ n = current_race
                /\ races'[n].state = "finished"]_vars

(* C33: race:finished and race:cancelled are never both published for one *)
(* session, in whatever order stop, the record_lap call that finishes the *)
(* last lane and the tick that observes the time limit come.              *)
C33_OneTerminalEvent ==
    \A n \in DOMAIN races :
       ~(/\ Published("race:finished", races[n].race_id) > 0
         /\ Published("race:cancelled", races[n].race_id) > 0)

-----------------------------------------------------------------------------
(* A session that replaced another (checked under Spec)                    *)

(* start_countdown is called in this step *)
C34_CountdownCalled == \E c \in 1..MaxCountdowns :
                          countdowns[c].pc = "unused" /\ countdowns'[c].pc # "unused"

(* stop is called in this step *)
C34_StopCalled(n) ==
    /\ races'[n].state = "finished"
    /\ PublishedIn(events', "race:cancelled", races[n].race_id)
          > PublishedIn(events, "race:cancelled", races[n].race_id)

(* A session that was replaced is out of reach: nothing changes its       *)
(* state, its start time or the fields of its lanes that are written by   *)
(* the countdown and the tick loop                                        *)
C34_ReplacedSessionUntouched ==
    [][\A n \in DOMAIN races :
          n # current_race
             => /\ races'[n].state = races[n].state
                /\ races'[n].start_time = races[n].start_time
                /\ races'[n].elapsed_time_ms = races[n].elapsed_time_ms]_vars

(* C34: a session leaves IDLE only by a start_countdown call made while   *)
(* it is the current session (or by stop); the countdown and the tick     *)
(* loop of an earlier session change neither its state nor its start time *)
(* nor its lanes while it is IDLE.                                        *)
C34_IdleUntilCountdown ==
    [][\A n \in DOMAIN races :
          races[n].state = "idle"
             => \/ /\ races'[n].state = "idle"
                   /\ races'[n].start_time = races[n].start_time
                   /\ races'[n].lanes = races[n].lanes
                \/ /\ C34_CountdownCalled
                   /\ n = current_race
                   /\ races'[n].state = "countdown"
                \/ C34_StopCalled(n)]_vars

====
